---- MODULE Spec2Model ----
(***************************************************************************)
(* privasee backend: the cache-backed analysis pipeline.                   *)
(*                                                                         *)
(* Spec     the request handler of /tos_processor (ProcessDomains), the    *)
(*          background units it starts (fetch, extraction with retries,    *)
(*          cache write, site attribute writes), and the backing           *)
(*          key-value store going down and up.                             *)
(* SpecKey  the pure cache key derivation applied to pairs of URL lists.   *)
(* SpecSev  the severity map store: seeding, Set(map) and the read of the  *)
(*          map, with two writers of the hash side by side.                *)
(* SpecSite the site attribute store: set_site_attributes and              *)
(*          get_site_attributes step by step, beside a seeding handler.    *)
(* SpecRisk GetTopRisks (compute_top_risks) step by step over stored       *)
(*          states, with the store going down and up between its reads.    *)
(* SpecAttrs the pure derivation of the attribute list from a              *)
(*          data_collection section.                                       *)
(* SpecLive the pipeline with one polling client, under the fairness of    *)
(*          the event loop.                                                *)
(*                                                                         *)
(* The key-value store is modelled by its keys: a key that does not exist  *)
(* is outside the DOMAIN of the function that models its namespace.        *)
(***************************************************************************)
EXTENDS Integers, Sequences, FiniteSets, TLC

VARIABLES
    cache,       \* tos:process:<key>   -> stored PolicyAnalysis
    siteAttrs,   \* tos:attrs:<domain>  -> sorted set: attribute -> score
    severity,    \* config:attribute_severity: hash attribute -> stored value
    storeUp,     \* the key-value store is reachable
    geminiKey,   \* settings.gemini_api_key is set
    units,       \* the background units started so far, in order of creation
    resp,        \* the response a handler has just produced (NoResp: none pending)
    lastWriter,  \* history: cache key -> index of the unit that wrote it last
    keyUrlsA,    \* SpecKey: first URL list
    keyUrlsB,    \* SpecKey: second URL list
    keyOut,      \* SpecKey: the two cache keys computed, or <<>> before
    sevWriters,  \* SpecSev, SpecSite: the calls of set_attribute_severity_map, per slot
    siteCall,    \* SpecSite: the call of set_site_attributes made directly
    siteReader,  \* SpecSite: the call of get_site_attributes
    snapshot,    \* SpecSite history: domain -> what the call of
                 \*   set_site_attributes that wrote the domain's set last
                 \*   read and wrote (see Snapshot)
    riskCall,    \* SpecRisk: the call of compute_top_risks
    dcIn,        \* SpecAttrs: a data_collection section
    attrsOut     \* SpecAttrs: the attribute list derived from dcIn (see NoAttrs)

vars == <<cache, siteAttrs, severity, storeUp, geminiKey, units, resp,
          lastWriter, keyUrlsA, keyUrlsB, keyOut,
          sevWriters, siteCall, siteReader, snapshot, riskCall, dcIn, attrsOut>>

riskVars == <<riskCall, dcIn, attrsOut>>

sevVars == <<sevWriters, siteCall, siteReader, snapshot, riskVars>>

----------------------------------------------------------------------------
(* Bounds of the model *)

MaxUnits == 2
MaxUrls == 2

----------------------------------------------------------------------------
(* URLs and the cache key *)

TOS_CACHE_PREFIX == "tos:process:"

MAX_RETRIES == 3

\* A URL is kept in the parts tldextract splits it into, plus scheme and path.
Url(scheme, sub, domain, suffix, path) ==
    [scheme |-> scheme, sub |-> sub, domain |-> domain, suffix |-> suffix, path |-> path]

UA == Url("https", "", "a", "com", "/x")
UA2 == Url("http", "www", "a", "com", "/y")
UB == Url("https", "", "b", "com", "")
UBlank == Url("", "", "", "", " ")
UCom == Url("", "", "", "com", "")
UHostA == Url("", "", "a", "", "")
UHostB == Url("", "", "b", "", "")
UPipe == Url("", "", "a|b", "", "")
UNoDomain == Url("", "", "no_domain", "", "")
UHostWwwA == Url("", "www", "a", "com", "")

\* The text of a URL, as submitted.
UrlText(u) ==
    (IF u.scheme # "" THEN u.scheme \o "://" ELSE "")
    \o (IF u.sub # "" THEN u.sub \o "." ELSE "")
    \o u.domain
    \o (IF u.domain # "" /\ u.suffix # "" THEN "." ELSE "")
    \o u.suffix
    \o u.path

\* str.strip() on the texts of the model: the texts with whitespace at their
\* ends are " " and " kept two years ".
Strip(text) ==
    IF text = " " THEN ""
    ELSE IF text = " kept two years " THEN "kept two years"
    ELSE text

\* tldextract.extract(url): the registered domain label and the public suffix.
tldextract_extract(u) == [subdomain |-> u.sub, domain |-> u.domain, suffix |-> u.suffix]

get_domain(u) ==
    LET ext == tldextract_extract(u)
    IN  IF ext.domain # "" /\ ext.suffix # ""
        THEN ext.domain \o "." \o ext.suffix
        ELSE ext.domain

\* Python's order on the strings get_domain can return here (code point order).
DomainOrder == <<"", "a", "a.com", "a|b", "b", "b.com", "no_domain">>

DomainRank(d) == CHOOSE i \in 1..Len(DomainOrder) : DomainOrder[i] = d

\* sorted(S) for a set of domain strings.
RECURSIVE SortedDomains(_)
SortedDomains(S) ==
    IF S = {} THEN <<>>
    ELSE LET m == CHOOSE d \in S : \A e \in S : DomainRank(d) <= DomainRank(e)
         IN  <<m>> \o SortedDomains(S \ {m})

\* sep.join(seq)
RECURSIVE Join(_, _)
Join(sep, seq) ==
    IF seq = <<>> THEN ""
    ELSE IF Len(seq) = 1 THEN seq[1]
    ELSE seq[1] \o sep \o Join(sep, Tail(seq))

\* {get_domain(u) for u in urls if u.strip()}
RequestDomains(urls) ==
    {get_domain(urls[i]) : i \in {j \in DOMAIN urls : Strip(UrlText(urls[j])) # ""}}

\* Faulty variant: the domains joined in submission order, duplicates kept.
cache_key_unsorted_no_dedup(urls) ==
    LET kept == SelectSeq(urls, LAMBDA u : Strip(UrlText(u)) # "")
        doms == [i \in DOMAIN kept |-> get_domain(kept[i])]
    IN  TOS_CACHE_PREFIX \o (IF doms # <<>> THEN Join("|", doms) ELSE "no_domain")

_cache_key_for_urls(urls) ==
    LET domains == SortedDomains(RequestDomains(urls))
        key == IF domains # <<>> THEN Join("|", domains) ELSE "no_domain"
    IN  TOS_CACHE_PREFIX \o key

----------------------------------------------------------------------------
(* The key-value store's namespaces as partial functions *)

EmptyMap == [x \in {} |-> 0]

Put(f, k, v) == [x \in DOMAIN f \cup {k} |-> IF x = k THEN v ELSE f[x]]

Del(f, k) == [x \in DOMAIN f \ {k} |-> f[x]]

Range(seq) == {seq[i] : i \in DOMAIN seq}

----------------------------------------------------------------------------
(* Severity map *)

SeverityEntry(color, level) == [color |-> color, sensitivity_level |-> level]

DEFAULT_ATTRIBUTE_SEVERITY ==
    [
     name |-> SeverityEntry("yellow", 3),
     email |-> SeverityEntry("yellow", 4),
     phone_number |-> SeverityEntry("yellow", 5),
     physical_address |-> SeverityEntry("red", 1),
     date_of_birth |-> SeverityEntry("yellow", 2),
     government_id |-> SeverityEntry("red", 9),
     financial_account |-> SeverityEntry("red", 10),
     biometric |-> SeverityEntry("red", 2),
     photo |-> SeverityEntry("yellow", 9),
     gender |-> SeverityEntry("yellow", 18),
     nationality |-> SeverityEntry("yellow", 17),
     race_ethnicity |-> SeverityEntry("red", 17),
     ip_address |-> SeverityEntry("yellow", 6),
     device_id |-> SeverityEntry("yellow", 8),
     browser_info |-> SeverityEntry("green", 2),
     os |-> SeverityEntry("green", 3),
     screen_resolution |-> SeverityEntry("green", 4),
     language |-> SeverityEntry("green", 5),
     timezone |-> SeverityEntry("green", 6),
     fingerprint |-> SeverityEntry("red", 13),
     precise_gps |-> SeverityEntry("red", 11),
     coarse_location |-> SeverityEntry("green", 7),
     wifi_cell |-> SeverityEntry("red", 12),
     ip_derived |-> SeverityEntry("yellow", 7),
     posts |-> SeverityEntry("yellow", 12),
     messages |-> SeverityEntry("red", 14),
     photos |-> SeverityEntry("yellow", 10),
     videos |-> SeverityEntry("yellow", 11),
     search_history |-> SeverityEntry("red", 15),
     purchase_history |-> SeverityEntry("yellow", 13),
     contacts |-> SeverityEntry("red", 16),
     social_media |-> SeverityEntry("yellow", 14),
     advertisers |-> SeverityEntry("yellow", 15),
     analytics |-> SeverityEntry("green", 1),
     data_brokers |-> SeverityEntry("yellow", 16),
     affiliates |-> SeverityEntry("green", 8),
     health |-> SeverityEntry("red", 3),
     genetic |-> SeverityEntry("red", 1),
     political |-> SeverityEntry("red", 5),
     religious |-> SeverityEntry("red", 6),
     sexual_orientation |-> SeverityEntry("red", 4),
     union_membership |-> SeverityEntry("red", 7),
     criminal |-> SeverityEntry("red", 8),
     age_under_13 |-> SeverityEntry("red", 18),
     age_13_to_17 |-> SeverityEntry("red", 19),
     parental_consent_required |-> SeverityEntry("red", 20)
    ]

\* A stored hash value is the JSON text of an entry, kept as the record it
\* parses to, or any other text s, kept as [text |-> s].
IsStructured(v) == {"color", "sensitivity_level"} \subseteq DOMAIN v

_legacy_entry(attr, color) ==
    LET default == IF attr \in DOMAIN DEFAULT_ATTRIBUTE_SEVERITY
                   THEN DEFAULT_ATTRIBUTE_SEVERITY[attr]
                   ELSE SeverityEntry("green", 1)
    IN  SeverityEntry(IF color \in {"red", "yellow", "green"} THEN color ELSE default.color,
                      default.sensitivity_level)

\* get_attribute_severity_map() on the hash contents raw (hgetall's answer).
get_attribute_severity_map(raw) ==
    [k \in DOMAIN raw |->
        IF IsStructured(raw[k]) THEN raw[k] ELSE _legacy_entry(k, raw[k].text)]

\* Faulty variant: an entry that lacks a field is left out of the payload.
payload_rejecting_malformed(mapping) ==
    [attr \in {a \in DOMAIN mapping : {"color", "sensitivity_level"} \subseteq DOMAIN mapping[a]}
        |-> mapping[attr]]

\* The payload set_attribute_severity_map(mapping) writes with hset.
SeverityPayload(mapping) ==
    [attr \in DOMAIN mapping |->
        IF IsStructured(mapping[attr]) THEN mapping[attr] ELSE SeverityEntry("green", 1)]

----------------------------------------------------------------------------
(* PolicyAnalysis and the attributes derived from it *)

\* A section of data_collection with a types list and its three texts.
Section(types, evidence, explanation, mitigation) ==
    [types |-> types, evidence |-> evidence, explanation |-> explanation,
     mitigation |-> mitigation]

\* A section whose texts are left at their default, the empty string.
TypedSection(types) == Section(types, "", "", "")

Signal(status) ==
    [status |-> status, evidence |-> "", explanation |-> "", mitigation |-> ""]

\* The data_collection section of the results the extraction can give.
DataCollection1 ==
    [personal_identifiers |->
        Section(<<"email", "financial_account">>, "ev-pii", "ex-pii", "mi-pii"),
     ip_address |-> Signal("true"),
     precise_location |-> TypedSection(<<>>),
     device_fingerprinting |-> TypedSection(<<>>),
     user_content |-> TypedSection(<<>>),
     third_party_data |-> TypedSection(<<>>),
     sensitive_data |-> TypedSection(<<>>)]

DataCollection2 ==
    [personal_identifiers |-> TypedSection(<<"email", "biometric">>),
     ip_address |-> Signal("false"),
     precise_location |-> TypedSection(<<>>),
     device_fingerprinting |-> TypedSection(<<"browser_info">>),
     user_content |-> TypedSection(<<>>),
     third_party_data |-> TypedSection(<<>>),
     sensitive_data |-> TypedSection(<<"biometric">>)]

\* A result with red attributes in five categories, two of them in one.
DataCollection3 ==
    [personal_identifiers |->
        Section(<<"financial_account", "government_id", "biometric">>,
                "ev-pii", "ex-pii", "mi-pii"),
     ip_address |-> [Signal("true") EXCEPT !.evidence = "ev-ip"],
     precise_location |-> Section(<<"precise_gps", "wifi_cell">>, "ev-loc", "ex-loc", "mi-loc"),
     device_fingerprinting |-> TypedSection(<<"browser_info">>),
     user_content |-> Section(<<"messages">>, "", "ex-uc", ""),
     third_party_data |-> TypedSection(<<>>),
     sensitive_data |-> Section(<<"biometric", "health">>, "ev-sens", "ex-sens", "mi-sens")]

\* The contents the extraction gives in the pipeline.
AnalysisIds == {1, 2}

\* What the model returns for the given documents: content number id of the
\* possible contents; sources records the documents it was extracted from.
PolicyAnalysis(id, sources) ==
    [id |-> id,
     sources |-> sources,
     data_collection |-> IF id = 1 THEN DataCollection1
                         ELSE IF id = 2 THEN DataCollection2
                         ELSE DataCollection3,
     retention |-> [retention_explanation |-> IF id = 2 THEN "" ELSE " kept two years "]]

NoValue == [id |-> 0]

\* PolicyAnalysis.model_validate(data): the required sections are present.
IsPolicyAnalysis(data) == {"data_collection", "retention"} \subseteq DOMAIN data

TypedSectionKeys ==
    {"personal_identifiers", "precise_location", "device_fingerprinting",
     "user_content", "third_party_data", "sensitive_data", "children_data"}

\* The members of the sorted list collect_attributes_from_data_collection
\* returns; its callers read the list only through its members.
collect_attributes_from_data_collection(data_collection) ==
    UNION {Range(data_collection[k].types) : k \in TypedSectionKeys \cap DOMAIN data_collection}
    \cup (IF /\ "ip_address" \in DOMAIN data_collection
             /\ data_collection["ip_address"].status \in {"true", "True"}
          THEN {"ip_address"} ELSE {})

----------------------------------------------------------------------------
(* Site attribute sets *)

\* The severity map set_site_attributes scores with, from hgetall's answer.
ScoringMap(raw) ==
    LET severity_map == get_attribute_severity_map(raw)
    IN  IF DOMAIN severity_map = {} THEN DEFAULT_ATTRIBUTE_SEVERITY ELSE severity_map

\* The scored dict set_site_attributes passes to zadd.
Scored(severity_map, attributes) ==
    [attr \in attributes |->
        IF attr \in DOMAIN severity_map
        THEN severity_map[attr].sensitivity_level
        ELSE IF attr \in DOMAIN DEFAULT_ATTRIBUTE_SEVERITY
             THEN DEFAULT_ATTRIBUTE_SEVERITY[attr].sensitivity_level
             ELSE 1]


----------------------------------------------------------------------------
(* Responses *)

NoResp ==
    [op |-> "none", urls |-> <<>>, kind |-> "none", key |-> "", lookup |-> "none",
     value |-> NoValue, unit |-> 0]

Response(op, urls, kind, key, lookup, value, unit) ==
    [op |-> op, urls |-> urls, kind |-> kind, key |-> key, lookup |-> lookup,
     value |-> value, unit |-> unit]

\* The response has left the handler.
Deliver ==
    /\ resp # NoResp
    /\ resp' = NoResp
    /\ UNCHANGED <<cache, siteAttrs, severity, storeUp, geminiKey, units,
                   lastWriter, keyUrlsA, keyUrlsB, keyOut, sevVars>>

----------------------------------------------------------------------------
(* ProcessDomains: POST /tos_processor/ *)

\* The URL lists a client submits.
RequestLists == {<<>>, <<UA>>, <<UA2>>, <<UA, UB>>}

\* get_json(key, PolicyAnalysis): "error" stands for a raised exception.
get_json(key) ==
    IF ~storeUp THEN [outcome |-> "error", value |-> NoValue]
    ELSE IF key \notin DOMAIN cache THEN [outcome |-> "miss", value |-> NoValue]
    ELSE IF IsPolicyAnalysis(cache[key]) THEN [outcome |-> "hit", value |-> cache[key]]
    ELSE [outcome |-> "error", value |-> NoValue]

\* Faulty variant: a new unit takes over the pages an earlier unit of the same URLs
\* had fetched before it failed.
new_unit_reusing_fetched_pages(urls) ==
    [urls |-> urls, pc |-> IF urls = <<>> THEN "extract" ELSE "fetch",
     fetched |-> IF \E u \in DOMAIN units :
                       /\ units[u].urls = urls
                       /\ units[u].pc = "fetch_failed"
                       /\ units[u].fetched > 0
                 THEN 1 ELSE 0,
     attempt |-> 0, answer |-> "none", extraction |-> NoValue,
     todo |-> {}, cur |-> "", sev |-> EmptyMap,
     failure |-> "none", wroteCache |-> FALSE, wroteSites |-> {}]

\* The coroutine asyncio.create_task(_run_process_and_cache(urls)) schedules.
\* failure, wroteCache and wroteSites are history: what the unit logged as
\* failed, and which keys it has written; answer is what the last invoke of
\* the model gave ("parsed", "empty", "raised").
NewUnit(urls) ==
    [urls |-> urls, pc |-> IF urls = <<>> THEN "extract" ELSE "fetch",
     fetched |-> 0, attempt |-> 0, answer |-> "none", extraction |-> NoValue,
     todo |-> {}, cur |-> "", sev |-> EmptyMap,
     failure |-> "none", wroteCache |-> FALSE, wroteSites |-> {}]

\* Faulty variant: the check for an empty list is missing.
is_empty_request_never(urls) == FALSE

\* if not urls (line 108)
IsEmptyRequest(urls) == urls = <<>>

\* Faulty variant: the cached value is never taken.
cache_hit_never(got) == FALSE

\* Faulty variant: only a key that is missing counts as a miss.
cache_hit_unless_miss(got) == got.outcome # "miss"

\* if cached is not None (line 116)
CacheHit(got) == got.outcome = "hit"

\* Faulty variant: a miss attaches to a unit of the same URLs that is still running.
start_unit_unless_in_flight(urls) ==
    IF \E u \in DOMAIN units :
          /\ units[u].urls = urls
          /\ units[u].pc \in {"fetch", "extract", "write"}
    THEN UNCHANGED units
    ELSE units' = Append(units, NewUnit(urls))

\* asyncio.create_task(_run_process_and_cache(urls)) (line 118)
StartUnit(urls) == units' = Append(units, NewUnit(urls))

\* A unit is between two awaits of its synchronous tail (lines 50-60), which
\* runs on the event loop without yielding.
InSyncTail(u) == units[u].pc \in {"site_read", "site_delete", "site_zadd"}

LoopFree == \A u \in DOMAIN units : ~InSyncTail(u)

tos_processor_root(urls) ==
    /\ resp = NoResp
    /\ LoopFree
    /\ IF IsEmptyRequest(urls)
       THEN /\ resp' = Response("ProcessDomains", urls, "client_error", "", "none", NoValue, 0)
            /\ UNCHANGED units
       ELSE LET cache_key == _cache_key_for_urls(urls)
                got == get_json(cache_key)
            IN  IF CacheHit(got)
                THEN /\ resp' = Response("ProcessDomains", urls, "analysis", cache_key,
                                         got.outcome, got.value, 0)
                     /\ UNCHANGED units
                ELSE /\ Len(units) < MaxUnits
                     /\ StartUnit(urls)
                     /\ resp' = Response("ProcessDomains", urls, "processing", cache_key,
                                         got.outcome, NoValue, Len(units) + 1)
    /\ UNCHANGED <<cache, siteAttrs, severity, storeUp, geminiKey,
                   lastWriter, keyUrlsA, keyUrlsB, keyOut, sevVars>>

ProcessDomains == \E urls \in RequestLists : tos_processor_root(urls)

----------------------------------------------------------------------------
(* The background unit: _run_process_and_cache *)

SetUnit(u, r) == units' = [units EXCEPT ![u] = r]

UnitFrame == UNCHANGED <<storeUp, geminiKey, resp, keyUrlsA, keyUrlsB, keyOut, sevVars>>

\* await fetch_page_content(u) returned a text.
FetchOk(u) ==
    /\ resp = NoResp /\ LoopFree
    /\ units[u].pc = "fetch"
    /\ LET n == units[u].fetched + 1
       IN  SetUnit(u, [units[u] EXCEPT !.fetched = n,
                          !.pc = IF n = Len(units[u].urls) THEN "extract" ELSE "fetch"])
    /\ UNCHANGED <<cache, siteAttrs, severity, lastWriter>>
    /\ UnitFrame

\* Faulty variant: a failed fetch is logged and the unit goes on with the texts it has.
FetchFailContinue(u) ==
    /\ resp = NoResp /\ LoopFree
    /\ units[u].pc = "fetch"
    /\ SetUnit(u, [units[u] EXCEPT !.pc = "extract", !.failure = "fetch"])
    /\ UNCHANGED <<cache, siteAttrs, severity, lastWriter>>
    /\ UnitFrame

\* await fetch_page_content(u) raised: logged, the unit returns.
FetchFail(u) ==
    /\ resp = NoResp /\ LoopFree
    /\ units[u].pc = "fetch"
    /\ SetUnit(u, [units[u] EXCEPT !.pc = "fetch_failed", !.failure = "fetch"])
    /\ UNCHANGED <<cache, siteAttrs, severity, lastWriter>>
    /\ UnitFrame

\* The documents handed to the extraction: the keys of the result dict.
Documents(u) == {units[u].urls[i] : i \in 1..units[u].fetched}

\* _extract_terms_and_privacy_risks, in its worker thread: no API key.
ExtractNoKey(u) ==
    /\ resp = NoResp
    /\ units[u].pc = "extract"
    /\ ~geminiKey
    /\ SetUnit(u, [units[u] EXCEPT !.pc = "extract_failed", !.failure = "extract"])
    /\ UNCHANGED <<cache, siteAttrs, severity, lastWriter>>
    /\ UnitFrame

\* One structured_model.invoke(prompt) whose answer parsed.
LlmParsed(u, id) ==
    /\ resp = NoResp
    /\ units[u].pc = "extract"
    /\ geminiKey
    /\ units[u].attempt < MAX_RETRIES
    /\ SetUnit(u, [units[u] EXCEPT !.attempt = 0, !.answer = "parsed",
                      !.extraction = PolicyAnalysis(id, Documents(u)),
                      !.pc = "write"])
    /\ UNCHANGED <<cache, siteAttrs, severity, lastWriter>>
    /\ UnitFrame

\* One invoke whose parsed answer is None; after MAX_RETRIES the call raises.
LlmEmpty(u) ==
    /\ resp = NoResp
    /\ units[u].pc = "extract"
    /\ geminiKey
    /\ units[u].attempt < MAX_RETRIES
    /\ SetUnit(u, [units[u] EXCEPT !.attempt = @ + 1, !.answer = "empty",
                      !.pc = IF units[u].attempt + 1 = MAX_RETRIES
                             THEN "extract_failed" ELSE "extract",
                      !.failure = IF units[u].attempt + 1 = MAX_RETRIES
                                  THEN "extract" ELSE "none"])
    /\ UNCHANGED <<cache, siteAttrs, severity, lastWriter>>
    /\ UnitFrame

\* Faulty variant: an invoke that raised is retried like an empty answer.
LlmRaisesRetried(u) ==
    /\ resp = NoResp
    /\ units[u].pc = "extract"
    /\ geminiKey
    /\ units[u].attempt < MAX_RETRIES
    /\ SetUnit(u, [units[u] EXCEPT !.attempt = @ + 1, !.answer = "raised",
                      !.pc = IF units[u].attempt + 1 = MAX_RETRIES
                             THEN "extract_failed" ELSE "extract",
                      !.failure = IF units[u].attempt + 1 = MAX_RETRIES
                                  THEN "extract" ELSE "none"])
    /\ UNCHANGED <<cache, siteAttrs, severity, lastWriter>>
    /\ UnitFrame

\* One invoke that raised.
LlmRaises(u) ==
    /\ resp = NoResp
    /\ units[u].pc = "extract"
    /\ geminiKey
    /\ units[u].attempt < MAX_RETRIES
    /\ SetUnit(u, [units[u] EXCEPT !.attempt = @ + 1, !.answer = "raised",
                      !.pc = "extract_failed", !.failure = "extract"])
    /\ UNCHANGED <<cache, siteAttrs, severity, lastWriter>>
    /\ UnitFrame

\* Faulty variant: the key is built from the first URL alone.
unit_cache_key_first_url(u) == TOS_CACHE_PREFIX \o get_domain(units[u].urls[1])

\* The key under which the unit caches its extraction (line 50).
UnitCacheKey(u) == _cache_key_for_urls(units[u].urls)

\* Faulty variant: only the data_collection section is stored.
cached_value_data_collection_only(u) ==
    [id |-> units[u].extraction.id,
     data_collection |-> units[u].extraction.data_collection]

\* The value set_json stores: json.dumps of the extraction dict.
CachedValue(u) == units[u].extraction

\* Faulty variant: an entry that exists is kept (SET with NX).
WriteCacheIfAbsent(u) ==
    /\ resp = NoResp /\ LoopFree
    /\ units[u].pc = "write"
    /\ IF storeUp
       THEN /\ cache' = IF UnitCacheKey(u) \in DOMAIN cache THEN cache
                         ELSE Put(cache, UnitCacheKey(u), CachedValue(u))
            /\ lastWriter' = Put(lastWriter, UnitCacheKey(u), u)
            /\ LET domains == RequestDomains(units[u].urls)
               IN  SetUnit(u, [units[u] EXCEPT !.todo = domains, !.wroteCache = TRUE,
                                  !.pc = IF domains = {} THEN "done" ELSE "site_read"])
       ELSE /\ SetUnit(u, [units[u] EXCEPT !.pc = "store_failed", !.failure = "store"])
            /\ UNCHANGED <<cache, lastWriter>>
    /\ UNCHANGED <<siteAttrs, severity>>
    /\ UnitFrame

\* Lines 50-57: set_json(cache_key, extraction), then found_attrs and domains.
WriteCache(u) ==
    /\ resp = NoResp /\ LoopFree
    /\ units[u].pc = "write"
    /\ IF storeUp
       THEN /\ cache' = Put(cache, UnitCacheKey(u), CachedValue(u))
            /\ lastWriter' = Put(lastWriter, UnitCacheKey(u), u)
            /\ LET domains == RequestDomains(units[u].urls)
               IN  SetUnit(u, [units[u] EXCEPT !.todo = domains, !.wroteCache = TRUE,
                                  !.pc = IF domains = {} THEN "done" ELSE "site_read"])
       ELSE /\ SetUnit(u, [units[u] EXCEPT !.pc = "store_failed", !.failure = "store"])
            /\ UNCHANGED <<cache, lastWriter>>
    /\ UNCHANGED <<siteAttrs, severity>>
    /\ UnitFrame

found_attrs(u) == collect_attributes_from_data_collection(units[u].extraction.data_collection)

\* set_site_attributes(domain, found_attrs) for the next domain: hgetall.
SiteRead(u) ==
    /\ resp = NoResp
    /\ units[u].pc = "site_read"
    /\ IF storeUp
       THEN \E domain \in units[u].todo :
                SetUnit(u, [units[u] EXCEPT !.cur = domain, !.sev = ScoringMap(severity),
                               !.pc = "site_delete"])
       ELSE SetUnit(u, [units[u] EXCEPT !.pc = "store_failed", !.failure = "store"])
    /\ UNCHANGED <<cache, siteAttrs, severity, lastWriter>>
    /\ UnitFrame

\* Faulty variant: the loop over the domains ends after its first domain.
after_site_first_domain_only(u) ==
    [units[u] EXCEPT !.todo = {}, !.cur = "", !.sev = EmptyMap,
                     !.wroteSites = @ \cup {units[u].cur}, !.pc = "done"]

\* The unit's position once set_site_attributes has returned for units[u].cur.
AfterSite(u) ==
    LET rest == units[u].todo \ {units[u].cur}
    IN  [units[u] EXCEPT !.todo = rest, !.cur = "", !.sev = EmptyMap,
                         !.wroteSites = @ \cup {units[u].cur},
                         !.pc = IF rest = {} THEN "done" ELSE "site_read"]

\* client.delete(key); an empty attribute list returns here.
SiteDelete(u) ==
    /\ resp = NoResp
    /\ units[u].pc = "site_delete"
    /\ IF storeUp
       THEN /\ siteAttrs' = Del(siteAttrs, units[u].cur)
            /\ IF found_attrs(u) = {}
               THEN SetUnit(u, AfterSite(u))
               ELSE SetUnit(u, [units[u] EXCEPT !.pc = "site_zadd",
                                  !.wroteSites = @ \cup {units[u].cur}])
       ELSE /\ SetUnit(u, [units[u] EXCEPT !.pc = "store_failed", !.failure = "store"])
            /\ UNCHANGED siteAttrs
    /\ UNCHANGED <<cache, severity, lastWriter>>
    /\ UnitFrame

\* client.zadd(key, scored)
SiteZadd(u) ==
    /\ resp = NoResp
    /\ units[u].pc = "site_zadd"
    /\ IF storeUp
       THEN /\ siteAttrs' = Put(siteAttrs, units[u].cur, Scored(units[u].sev, found_attrs(u)))
            /\ SetUnit(u, AfterSite(u))
       ELSE /\ SetUnit(u, [units[u] EXCEPT !.pc = "store_failed", !.failure = "store"])
            /\ UNCHANGED siteAttrs
    /\ UNCHANGED <<cache, severity, lastWriter>>
    /\ UnitFrame

----------------------------------------------------------------------------
(* The backing store becomes unreachable, and reachable again *)

StoreFails ==
    /\ resp = NoResp
    /\ storeUp
    /\ storeUp' = FALSE
    /\ UNCHANGED <<cache, siteAttrs, severity, geminiKey, units, resp,
                   lastWriter, keyUrlsA, keyUrlsB, keyOut, sevVars>>

StoreRecovers ==
    /\ resp = NoResp
    /\ ~storeUp
    /\ storeUp' = TRUE
    /\ UNCHANGED <<cache, siteAttrs, severity, geminiKey, units, resp,
                   lastWriter, keyUrlsA, keyUrlsB, keyOut, sevVars>>

----------------------------------------------------------------------------
(* The severity map store and the site attribute store, called directly *)

MaxWriters == 2

\* A call of set_attribute_severity_map. before and alone are history: the
\* hash as the call found it, and whether no other call has written the hash
\* since this call began.
IdleWriter ==
    [pc |-> "idle", op |-> "none", mapping |-> EmptyMap, before |-> EmptyMap, alone |-> TRUE]

\* The maps handed to set_attribute_severity_map besides the default table:
\* one entry well formed, one lacking its sensitivity_level, one a bare string.
CustomMap ==
    [email |-> SeverityEntry("red", 7),
     financial_account |-> [color |-> "red"],
     custom_attr |-> [text |-> "yellow"]]

SetMaps == {CustomMap, EmptyMap}

\* A hash written before entries were structured: bare strings as values.
LegacyStored ==
    [email |-> [text |-> "yellow"],
     custom_attr |-> [text |-> "red"],
     other_attr |-> [text |-> "mauve"]]

\* client.hset(key, mapping=payload) on the hash f.
HSet(f, payload) ==
    [k \in DOMAIN f \cup DOMAIN payload |-> IF k \in DOMAIN payload THEN payload[k] ELSE f[k]]

\* The slots after slot w has moved to record r and written the hash.
WriterWrote(w, r) ==
    [v \in DOMAIN sevWriters |->
        IF v = w THEN r ELSE [sevWriters[v] EXCEPT !.alone = FALSE]]

SevFrame ==
    UNCHANGED <<cache, storeUp, geminiKey, units, lastWriter, keyUrlsA, keyUrlsB, keyOut,
                riskVars>>

\* Faulty variant: the hash is not deleted before it is written.
set_attribute_severity_map_no_delete(w, op, mapping) ==
    /\ resp = NoResp
    /\ sevWriters[w].pc \in {"idle", "done", "failed"}
    /\ LET call == [pc |-> "hset", op |-> op, mapping |-> mapping,
                    before |-> severity, alone |-> TRUE]
       IN  IF storeUp
           THEN /\ sevWriters' = WriterWrote(w,
                       [call EXCEPT !.pc = IF DOMAIN mapping # {} THEN "hset"
                                           ELSE IF op = "Seed" THEN "get" ELSE "done"])
                /\ UNCHANGED resp
           ELSE /\ sevWriters' = [sevWriters EXCEPT ![w] = [call EXCEPT !.pc = "failed"]]
                /\ resp' = IF op = "Seed"
                           THEN Response("SeedSeverityDefaults", <<>>, "unavailable", "",
                                         "error", NoValue, w)
                           ELSE resp
    /\ UNCHANGED <<severity, siteAttrs, siteCall, siteReader, snapshot>>
    /\ SevFrame

\* set_attribute_severity_map(mapping), lines 105-108: client.delete, and the
\* return on an empty mapping. op is "Seed" for the call made by the handler
\* seed_attribute_severity, which answers 503 when the store raises.
set_attribute_severity_map_delete(w, op, mapping) ==
    /\ resp = NoResp
    /\ sevWriters[w].pc \in {"idle", "done", "failed"}
    /\ LET call == [pc |-> "hset", op |-> op, mapping |-> mapping,
                    before |-> severity, alone |-> TRUE]
       IN  IF storeUp
           THEN /\ severity' = EmptyMap
                /\ sevWriters' = WriterWrote(w,
                       [call EXCEPT !.pc = IF DOMAIN mapping # {} THEN "hset"
                                           ELSE IF op = "Seed" THEN "get" ELSE "done"])
                /\ UNCHANGED resp
           ELSE /\ sevWriters' = [sevWriters EXCEPT ![w] = [call EXCEPT !.pc = "failed"]]
                /\ resp' = IF op = "Seed"
                           THEN Response("SeedSeverityDefaults", <<>>, "unavailable", "",
                                         "error", NoValue, w)
                           ELSE resp
                /\ UNCHANGED severity
    /\ UNCHANGED <<siteAttrs, siteCall, siteReader, snapshot>>
    /\ SevFrame

\* set_attribute_severity_map, lines 109-115: the payload and client.hset.
set_attribute_severity_map_hset(w) ==
    /\ resp = NoResp
    /\ sevWriters[w].pc = "hset"
    /\ IF storeUp
       THEN /\ severity' = HSet(severity, SeverityPayload(sevWriters[w].mapping))
            /\ sevWriters' = WriterWrote(w,
                   [sevWriters[w] EXCEPT !.pc = IF sevWriters[w].op = "Seed" THEN "get" ELSE "done"])
            /\ UNCHANGED resp
       ELSE /\ sevWriters' = [sevWriters EXCEPT ![w].pc = "failed"]
            /\ resp' = IF sevWriters[w].op = "Seed"
                       THEN Response("SeedSeverityDefaults", <<>>, "unavailable", "",
                                     "error", NoValue, w)
                       ELSE resp
            /\ UNCHANGED severity
    /\ UNCHANGED <<siteAttrs, siteCall, siteReader, snapshot>>
    /\ SevFrame

\* seed_attribute_severity, line 23: return get_attribute_severity_map().
seed_attribute_severity_return(w) ==
    /\ resp = NoResp
    /\ sevWriters[w].pc = "get"
    /\ IF storeUp
       THEN /\ resp' = Response("SeedSeverityDefaults", <<>>, "ok", "", "none",
                                get_attribute_severity_map(severity), w)
            /\ sevWriters' = [sevWriters EXCEPT ![w].pc = "done"]
       ELSE /\ resp' = Response("SeedSeverityDefaults", <<>>, "unavailable", "",
                                "error", NoValue, w)
            /\ sevWriters' = [sevWriters EXCEPT ![w].pc = "failed"]
    /\ UNCHANGED <<siteAttrs, severity, siteCall, siteReader, snapshot>>
    /\ SevFrame

\* POST /attribute_severity/seed
seed_attribute_severity(w) ==
    set_attribute_severity_map_delete(w, "Seed", DEFAULT_ATTRIBUTE_SEVERITY)

\* Set(map): set_attribute_severity_map called with another mapping.
set_attribute_severity_map(w, mapping) ==
    set_attribute_severity_map_delete(w, "Set", mapping)

\* GET /attribute_severity/
get_attribute_severity ==
    /\ resp = NoResp
    /\ resp' = IF storeUp
               THEN Response("GetSeverityMap", <<>>, "ok", "", "none",
                             get_attribute_severity_map(severity), 0)
               ELSE Response("GetSeverityMap", <<>>, "unavailable", "", "error", NoValue, 0)
    /\ UNCHANGED <<siteAttrs, severity, sevWriters, siteCall, siteReader, snapshot>>
    /\ SevFrame

\* The domains and attribute lists set_site_attributes is called with:
\* nothing, the three attributes of the end-to-end scenario, and a list with
\* a repeated name and a name that no severity table knows.
SiteDomains == {"example.com", "other.com"}

SiteNames ==
    {<<>>,
     <<"financial_account", "email", "browser_info">>,
     <<"email", "unknown_attr", "email">>}

\* A call of set_site_attributes(domain, attributes). sev is the local
\* severity_map; prev is history: the members of the set when the call began.
NoCall ==
    [pc |-> "idle", domain |-> "", names |-> <<>>, sev |-> EmptyMap, prev |-> {}]

Members(domain) == IF domain \in DOMAIN siteAttrs THEN DOMAIN siteAttrs[domain] ELSE {}

\* set_site_attributes, lines 133-136: the severity map, or the defaults.
set_site_attributes_read(domain, names) ==
    /\ resp = NoResp
    /\ siteCall.pc \in {"idle", "done", "failed"}
    /\ LET call == [pc |-> "delete", domain |-> domain, names |-> names,
                    sev |-> EmptyMap, prev |-> Members(domain)]
       IN  siteCall' = IF storeUp THEN [call EXCEPT !.sev = ScoringMap(severity)]
                       ELSE [call EXCEPT !.pc = "failed"]
    /\ UNCHANGED <<siteAttrs, severity, resp, sevWriters, siteReader, snapshot>>
    /\ SevFrame

\* Faulty variant: the set is not deleted before it is written.
set_site_attributes_no_delete ==
    /\ resp = NoResp
    /\ siteCall.pc = "delete"
    /\ siteCall' = IF ~storeUp THEN [siteCall EXCEPT !.pc = "failed", !.sev = EmptyMap]
                    ELSE IF siteCall.names = <<>>
                    THEN [siteCall EXCEPT !.pc = "done", !.sev = EmptyMap]
                    ELSE [siteCall EXCEPT !.pc = "zadd"]
    /\ UNCHANGED <<siteAttrs, snapshot>>
    /\ UNCHANGED <<severity, resp, sevWriters, siteReader>>
    /\ SevFrame

\* set_site_attributes, lines 138-143: client.delete(key), and the return on
\* an empty attribute list.
set_site_attributes_delete ==
    /\ resp = NoResp
    /\ siteCall.pc = "delete"
    /\ IF storeUp
       THEN /\ siteAttrs' = Del(siteAttrs, siteCall.domain)
            /\ snapshot' = Del(snapshot, siteCall.domain)
            /\ siteCall' = IF siteCall.names = <<>>
                            THEN [siteCall EXCEPT !.pc = "done", !.sev = EmptyMap]
                            ELSE [siteCall EXCEPT !.pc = "zadd"]
       ELSE /\ siteCall' = [siteCall EXCEPT !.pc = "failed", !.sev = EmptyMap]
            /\ UNCHANGED <<siteAttrs, snapshot>>
    /\ UNCHANGED <<severity, resp, sevWriters, siteReader>>
    /\ SevFrame

\* History of a write of a set: read is the severity map the call scored
\* with, written the map the store would have given at the moment of zadd,
\* names the attributes the call was given.
Snapshot(read, written, names) == [read |-> read, written |-> written, names |-> names]

NoSnapshot == Snapshot(EmptyMap, EmptyMap, {})

\* set_site_attributes, lines 145-151: scored and client.zadd(key, scored).
\* zadd adds to the members the key holds.
set_site_attributes_zadd ==
    /\ resp = NoResp
    /\ siteCall.pc = "zadd"
    /\ IF storeUp
       THEN /\ siteAttrs' = Put(siteAttrs, siteCall.domain,
                   HSet(IF siteCall.domain \in DOMAIN siteAttrs
                        THEN siteAttrs[siteCall.domain] ELSE EmptyMap,
                        Scored(siteCall.sev, Range(siteCall.names))))
            /\ snapshot' = Put(snapshot, siteCall.domain,
                   Snapshot(siteCall.sev, ScoringMap(severity), Range(siteCall.names)))
            /\ siteCall' = [siteCall EXCEPT !.pc = "done", !.sev = EmptyMap]
       ELSE /\ siteCall' = [siteCall EXCEPT !.pc = "failed", !.sev = EmptyMap]
            /\ UNCHANGED <<siteAttrs, snapshot>>
    /\ UNCHANGED <<severity, resp, sevWriters, siteReader>>
    /\ SevFrame

\* Byte order of the attribute names that can be members of a set.
AttrOrder ==
    <<"biometric", "browser_info", "email", "financial_account", "government_id", "health",
      "ip_address", "messages", "precise_gps", "unknown_attr", "wifi_cell">>

AttrRank(a) == CHOOSE i \in 1..Len(AttrOrder) : AttrOrder[i] = a

\* Faulty variant: the pairs in ascending order (zrange).
RECURSIVE ZRange(_)
ZRange(zset) ==
    IF DOMAIN zset = {} THEN <<>>
    ELSE LET m == CHOOSE a \in DOMAIN zset :
                     \A b \in DOMAIN zset :
                        \/ zset[a] < zset[b]
                        \/ zset[a] = zset[b] /\ AttrRank(a) <= AttrRank(b)
         IN  <<[member |-> m, score |-> zset[m]]>> \o ZRange(Del(zset, m))

\* client.zrevrange(key, 0, -1, withscores=True): the (member, score) pairs by
\* descending score, members of equal score in descending byte order.
RECURSIVE ZRevRange(_)
ZRevRange(zset) ==
    IF DOMAIN zset = {} THEN <<>>
    ELSE LET m == CHOOSE a \in DOMAIN zset :
                     \A b \in DOMAIN zset :
                        \/ zset[a] > zset[b]
                        \/ zset[a] = zset[b] /\ AttrRank(a) >= AttrRank(b)
         IN  <<[member |-> m, score |-> zset[m]]>> \o ZRevRange(Del(zset, m))

\* A call of get_site_attributes(domain). raw is the local of that name;
\* snap is history: snapshot[domain] when raw was read.
NoReader == [pc |-> "idle", domain |-> "", raw |-> <<>>, snap |-> NoSnapshot]

\* Faulty variant: every attribute is shown green.
color_always_green(severity_map, attr) == "green"

\* get_site_attributes, lines 175-176: the color of an attribute.
ColorOf(severity_map, attr) ==
    IF attr \in DOMAIN severity_map THEN severity_map[attr].color
    ELSE IF attr \in DOMAIN DEFAULT_ATTRIBUTE_SEVERITY
         THEN DEFAULT_ATTRIBUTE_SEVERITY[attr].color
         ELSE "green"

\* Faulty variant: the color is that of the severity map at the last write of
\* the set.
result_with_colors_of_last_write(raw, severity_map) ==
    [i \in DOMAIN raw |->
        [attribute |-> raw[i].member,
         color |-> ColorOf(siteReader.snap.written, raw[i].member),
         sensitivity_level |-> raw[i].score]]

\* Faulty variant: the level is read from the severity map of the moment.
result_with_current_levels(raw, severity_map) ==
    [i \in DOMAIN raw |->
        [attribute |-> raw[i].member,
         color |-> ColorOf(severity_map, raw[i].member),
         sensitivity_level |->
            IF raw[i].member \in DOMAIN severity_map
            THEN severity_map[raw[i].member].sensitivity_level
            ELSE raw[i].score]]

\* get_site_attributes, lines 172-182: the result list. int(score) of the
\* scores of the model, which are whole numbers, is the score.
SiteResult(raw, severity_map) ==
    [i \in DOMAIN raw |->
        [attribute |-> raw[i].member,
         color |-> ColorOf(severity_map, raw[i].member),
         sensitivity_level |-> raw[i].score]]

\* GET /attribute_severity/sites/{domain}/attributes, up to line 166 of
\* get_site_attributes: zrevrange, and the empty list when nothing is stored.
get_site_attributes_zrevrange(domain) ==
    /\ resp = NoResp
    /\ siteReader.pc \in {"idle", "returned"}
    /\ LET raw == IF domain \in DOMAIN siteAttrs THEN ZRevRange(siteAttrs[domain]) ELSE <<>>
           snap == IF domain \in DOMAIN snapshot THEN snapshot[domain] ELSE NoSnapshot
       IN  IF ~storeUp
           THEN /\ resp' = Response("GetCachedAttributes", <<>>, "unavailable", domain,
                                    "error", NoValue, 0)
                /\ siteReader' = [NoReader EXCEPT !.pc = "returned", !.domain = domain]
           ELSE IF raw = <<>>
           THEN /\ resp' = Response("GetCachedAttributes", <<>>, "ok", domain, "none", <<>>, 0)
                /\ siteReader' = [NoReader EXCEPT !.pc = "returned", !.domain = domain]
           ELSE /\ siteReader' = [pc |-> "map", domain |-> domain, raw |-> raw, snap |-> snap]
                /\ UNCHANGED resp
    /\ UNCHANGED <<siteAttrs, severity, sevWriters, siteCall, snapshot>>
    /\ SevFrame

\* get_site_attributes, lines 168-182: the severity map and the result.
get_site_attributes_return ==
    /\ resp = NoResp
    /\ siteReader.pc = "map"
    /\ resp' = IF storeUp
               THEN Response("GetCachedAttributes", <<>>, "ok", siteReader.domain, "none",
                             SiteResult(siteReader.raw, ScoringMap(severity)), 0)
               ELSE Response("GetCachedAttributes", <<>>, "unavailable", siteReader.domain,
                             "error", NoValue, 0)
    /\ siteReader' = [NoReader EXCEPT !.pc = "returned", !.domain = siteReader.domain]
    /\ UNCHANGED <<siteAttrs, severity, sevWriters, siteCall, snapshot>>
    /\ SevFrame

----------------------------------------------------------------------------
(* The attribute list derived from a data_collection *)

\* sorted(attrs) (line 219) for a set of attribute names.
RECURSIVE SortedAttrs(_)
SortedAttrs(attrs) ==
    IF attrs = {} THEN <<>>
    ELSE LET m == CHOOSE a \in attrs : \A b \in attrs : AttrRank(a) <= AttrRank(b)
         IN  <<m>> \o SortedAttrs(attrs \ {m})

\* The list is not derived yet.
NoAttrs == [derived |-> FALSE, attrs |-> <<>>]

\* The types lists and the status of the ip_address signal the extraction
\* can give: PIIType and DeviceDataType both allow "ip_address".
PiiLists == {<<>>, <<"email">>, <<"email", "ip_address">>, <<"biometric", "email">>}

DeviceLists == {<<>>, <<"browser_info">>, <<"ip_address", "browser_info">>}

SensitiveLists == {<<>>, <<"biometric">>}

SignalStatuses == {"true", "false", "not_found", "unknown"}

DataCollections ==
    {[personal_identifiers |-> TypedSection(p),
      ip_address |-> Signal(st),
      precise_location |-> TypedSection(<<>>),
      device_fingerprinting |-> TypedSection(d),
      user_content |-> TypedSection(<<>>),
      third_party_data |-> TypedSection(<<>>),
      sensitive_data |-> TypedSection(sd)] :
        p \in PiiLists, d \in DeviceLists, sd \in SensitiveLists, st \in SignalStatuses}

\* found_attrs = collect_attributes_from_data_collection(data_collection)
CollectAttributes ==
    /\ ~attrsOut.derived
    /\ attrsOut' = [derived |-> TRUE,
                    attrs |-> SortedAttrs(collect_attributes_from_data_collection(dcIn))]
    /\ UNCHANGED <<cache, siteAttrs, severity, storeUp, geminiKey, units, resp,
                   lastWriter, keyUrlsA, keyUrlsB, keyOut,
                   sevWriters, siteCall, siteReader, snapshot, riskCall, dcIn>>

----------------------------------------------------------------------------
(* GetTopRisks: GET /overlay_summary/top_risks *)

ATTRIBUTE_TO_SECTION_TYPE ==
    [name |-> "personal_identifiers",
     email |-> "personal_identifiers",
     phone_number |-> "personal_identifiers",
     physical_address |-> "personal_identifiers",
     date_of_birth |-> "personal_identifiers",
     government_id |-> "personal_identifiers",
     financial_account |-> "personal_identifiers",
     biometric |-> "sensitive_data",
     photo |-> "personal_identifiers",
     gender |-> "personal_identifiers",
     nationality |-> "personal_identifiers",
     race_ethnicity |-> "sensitive_data",
     ip_address |-> "ip_address",
     precise_gps |-> "precise_location",
     coarse_location |-> "precise_location",
     wifi_cell |-> "precise_location",
     ip_derived |-> "precise_location",
     device_id |-> "device_fingerprinting",
     browser_info |-> "device_fingerprinting",
     os |-> "device_fingerprinting",
     screen_resolution |-> "device_fingerprinting",
     language |-> "device_fingerprinting",
     timezone |-> "device_fingerprinting",
     fingerprint |-> "device_fingerprinting",
     posts |-> "user_content",
     messages |-> "user_content",
     photos |-> "user_content",
     videos |-> "user_content",
     search_history |-> "user_content",
     purchase_history |-> "user_content",
     contacts |-> "user_content",
     social_media |-> "third_party_data",
     advertisers |-> "third_party_data",
     analytics |-> "third_party_data",
     data_brokers |-> "third_party_data",
     affiliates |-> "third_party_data",
     health |-> "sensitive_data",
     genetic |-> "sensitive_data",
     political |-> "sensitive_data",
     religious |-> "sensitive_data",
     sexual_orientation |-> "sensitive_data",
     union_membership |-> "sensitive_data",
     criminal |-> "sensitive_data",
     age_under_13 |-> "sensitive_data",
     age_13_to_17 |-> "sensitive_data",
     parental_consent_required |-> "sensitive_data"]

_attribute_section_type(attr_name) ==
    IF attr_name \in DOMAIN ATTRIBUTE_TO_SECTION_TYPE
    THEN ATTRIBUTE_TO_SECTION_TYPE[attr_name]
    ELSE attr_name

_cache_key_for_domain(domain) == TOS_CACHE_PREFIX \o domain

\* raw_domain is the text of the URL record u; prefixing "https://" leaves
\* the parts tldextract finds as they are.
_normalize_domain(u) ==
    LET candidate == Strip(UrlText(u))
    IN  IF candidate = "" THEN candidate
        ELSE IF get_domain(u) # "" THEN get_domain(u) ELSE Strip(UrlText(u))

\* value.replace("_", " ").title() on the attribute names of the model.
TitleCase ==
    [biometric |-> "Biometric",
     browser_info |-> "Browser Info",
     email |-> "Email",
     financial_account |-> "Financial Account",
     government_id |-> "Government Id",
     health |-> "Health",
     ip_address |-> "Ip Address",
     messages |-> "Messages",
     precise_gps |-> "Precise Gps",
     unknown_attr |-> "Unknown Attr",
     wifi_cell |-> "Wifi Cell"]

_format_attribute_name(value) == TitleCase[value]

\* None, as _get_section_for_attribute returns it.
NoSection == [none |-> TRUE]

\* typed_sections (lines 106-113), in the order they are searched.
typed_sections ==
    <<"personal_identifiers", "precise_location", "device_fingerprinting",
      "user_content", "third_party_data", "sensitive_data">>

_get_section_for_attribute(attr, data_collection) ==
    LET holds(i) == /\ typed_sections[i] \in DOMAIN data_collection
                    /\ attr \in Range(data_collection[typed_sections[i]].types)
    IN  IF \E i \in DOMAIN typed_sections : holds(i)
        THEN LET first == CHOOSE i \in DOMAIN typed_sections :
                              holds(i) /\ \A j \in 1..(i - 1) : ~holds(j)
             IN  data_collection[typed_sections[first]]
        ELSE IF attr = "ip_address" /\ "ip_address" \in DOMAIN data_collection
             THEN data_collection["ip_address"]
             ELSE NoSection

\* analysis.get("data_collection", {})
DataCollectionOf(analysis) ==
    IF "data_collection" \in DOMAIN analysis THEN analysis.data_collection ELSE EmptyMap

_get_evidence_for_attribute(attr, analysis) ==
    LET section == _get_section_for_attribute(attr, DataCollectionOf(analysis))
    IN  IF section # NoSection THEN section.evidence ELSE ""

_get_explanation_for_attribute(attr, analysis) ==
    LET section == _get_section_for_attribute(attr, DataCollectionOf(analysis))
    IN  IF section # NoSection THEN section.explanation ELSE ""

_get_mitigation_for_attribute(attr, analysis) ==
    LET section == _get_section_for_attribute(attr, DataCollectionOf(analysis))
    IN  IF section # NoSection THEN section.mitigation ELSE ""

\* Line 199: red_attrs.
RedAttrs(all_attrs) == SelectSeq(all_attrs, LAMBDA a : a.color = "red")

\* Faulty variant: the first three red attributes, whatever their categories.
first_three_red(red_attrs, seen_section_types, top_3) ==
    SubSeq(red_attrs, 1, IF Len(red_attrs) < 3 THEN Len(red_attrs) ELSE 3)

\* Lines 200-212: the walk over red_attrs, from the state (seen_section_types,
\* top_3) of the loop.
RECURSIVE Top3(_, _, _)
Top3(red_attrs, seen_section_types, top_3) ==
    IF red_attrs = <<>> \/ Len(top_3) >= 3 THEN top_3
    ELSE LET a == Head(red_attrs)
             section_type == _attribute_section_type(a.attribute)
         IN  IF a.attribute = "" \/ section_type \in seen_section_types
             THEN Top3(Tail(red_attrs), seen_section_types, top_3)
             ELSE Top3(Tail(red_attrs), seen_section_types \cup {section_type}, Append(top_3, a))

\* Lines 226-237: the enriched items.
Enriched(top_3, analysis_dict) ==
    [i \in DOMAIN top_3 |->
        [title |-> _format_attribute_name(top_3[i].attribute),
         evidence |-> _get_evidence_for_attribute(top_3[i].attribute, analysis_dict),
         explanation |-> _get_explanation_for_attribute(top_3[i].attribute, analysis_dict),
         color |-> top_3[i].color,
         sensitivity_level |-> top_3[i].sensitivity_level]]

\* Lines 240-245: the retention summary.
DataRetentionPolicy(analysis_dict) ==
    [title |-> "Data Retention Policy",
     explanation |-> IF "retention" \in DOMAIN analysis_dict
                     THEN Strip(analysis_dict.retention.retention_explanation)
                     ELSE ""]

\* Faulty variant: a mitigation for each selected attribute.
mitigations_for_all(top_3, analysis_dict) ==
    [i \in DOMAIN top_3 |->
        [title |-> _format_attribute_name(top_3[i].attribute),
         mitigation |-> _get_mitigation_for_attribute(top_3[i].attribute, analysis_dict)]]

\* Lines 248-255: mitigations for top_3[:2].
Mitigations(top_3, analysis_dict) ==
    [i \in DOMAIN SubSeq(top_3, 1, IF Len(top_3) < 2 THEN Len(top_3) ELSE 2) |->
        [title |-> _format_attribute_name(top_3[i].attribute),
         mitigation |-> _get_mitigation_for_attribute(top_3[i].attribute, analysis_dict)]]

\* Faulty variant: an analysis counts as cached once the domain has attributes.
has_cached_analysis_by_attributes(got, top_3) == got.outcome = "hit" \/ top_3 # <<>>

\* cached is not None (line 262)
HasCachedAnalysis(got, top_3) == got.outcome = "hit"

\* Faulty variant: a failed lookup is read as an analysis without sections.
analysis_dict_with_failure_text(got) ==
    IF got.outcome = "hit" THEN got.value
    ELSE IF got.outcome = "error"
         THEN [retention |-> [retention_explanation |-> "lookup failed"]]
         ELSE EmptyMap

\* cached.model_dump() if cached else {} (line 223)
AnalysisDict(got) == IF got.outcome = "hit" THEN got.value ELSE EmptyMap

\* Lines 216-263: the result, from the selection and the answer of get_json.
RiskSummary(normalized_domain, top_3, got) ==
    [domain |-> normalized_domain,
     top_high_risk_attributes |-> Enriched(top_3, AnalysisDict(got)),
     data_retention_policy |-> DataRetentionPolicy(AnalysisDict(got)),
     mitigations |-> Mitigations(top_3, AnalysisDict(got)),
     has_cached_analysis |-> HasCachedAnalysis(got, top_3)]

\* A call of compute_top_risks(domain). all_attrs and top_3 outlive the call
\* as history of what it read and selected.
NoRiskCall ==
    [pc |-> "idle", domain |-> "", raw |-> <<>>, all_attrs |-> <<>>, top_3 |-> <<>>]

\* The hosts and URLs GetTopRisks is asked about.
RiskInputs == {UA2, UHostWwwA, UB, UBlank}

RiskFrame ==
    UNCHANGED <<units, geminiKey, lastWriter, keyUrlsA, keyUrlsB, keyOut,
                sevWriters, siteCall, siteReader, snapshot, dcIn, attrsOut>>

\* The 503 of get_top_risks (lines 287-289).
RiskUnavailable == Response("GetTopRisks", <<>>, "unavailable", "", "error", NoValue, 0)

\* compute_top_risks up to line 166 of get_site_attributes: the normalized
\* domain and zrevrange; the empty list when nothing is stored.
compute_top_risks_zrevrange(u) ==
    /\ resp = NoResp
    /\ riskCall.pc \in {"idle", "returned"}
    /\ LET normalized_domain == _normalize_domain(u)
           raw == IF normalized_domain \in DOMAIN siteAttrs
                  THEN ZRevRange(siteAttrs[normalized_domain]) ELSE <<>>
           call == [NoRiskCall EXCEPT !.domain = normalized_domain]
       IN  IF ~storeUp
           THEN /\ resp' = RiskUnavailable
                /\ riskCall' = [call EXCEPT !.pc = "returned"]
           ELSE /\ riskCall' = IF raw = <<>> THEN [call EXCEPT !.pc = "cache"]
                               ELSE [call EXCEPT !.pc = "map", !.raw = raw]
                /\ UNCHANGED resp
    /\ UNCHANGED <<cache, siteAttrs, severity, storeUp>>
    /\ RiskFrame

\* get_site_attributes, lines 168-182, and lines 199-212: the severity map,
\* all_attrs and the selection.
compute_top_risks_select ==
    /\ resp = NoResp
    /\ riskCall.pc = "map"
    /\ IF storeUp
       THEN LET all_attrs == SiteResult(riskCall.raw, ScoringMap(severity))
            IN  /\ riskCall' = [riskCall EXCEPT !.pc = "cache", !.raw = <<>>,
                                   !.all_attrs = all_attrs,
                                   !.top_3 = Top3(RedAttrs(all_attrs), {}, <<>>)]
                /\ UNCHANGED resp
       ELSE /\ resp' = RiskUnavailable
            /\ riskCall' = [riskCall EXCEPT !.pc = "returned", !.raw = <<>>]
    /\ UNCHANGED <<cache, siteAttrs, severity, storeUp>>
    /\ RiskFrame

\* Faulty variant: a domain without a cached analysis gets an empty entry cached.
compute_top_risks_return_caching ==
    /\ resp = NoResp
    /\ riskCall.pc = "cache"
    /\ LET cache_key == _cache_key_for_domain(riskCall.domain)
           got == get_json(cache_key)
       IN  /\ resp' = Response("GetTopRisks", <<>>, "ok", cache_key, got.outcome,
                               RiskSummary(riskCall.domain, riskCall.top_3, got), 0)
           /\ cache' = IF got.outcome = "miss" THEN Put(cache, cache_key, NoValue) ELSE cache
    /\ riskCall' = [riskCall EXCEPT !.pc = "returned"]
    /\ UNCHANGED <<siteAttrs, severity, storeUp>>
    /\ RiskFrame

\* Lines 216-273: get_json under the domain's key, and the result.
compute_top_risks_return ==
    /\ resp = NoResp
    /\ riskCall.pc = "cache"
    /\ LET cache_key == _cache_key_for_domain(riskCall.domain)
           got == get_json(cache_key)
       IN  resp' = Response("GetTopRisks", <<>>, "ok", cache_key, got.outcome,
                            RiskSummary(riskCall.domain, riskCall.top_3, got), 0)
    /\ riskCall' = [riskCall EXCEPT !.pc = "returned"]
    /\ UNCHANGED <<cache, siteAttrs, severity, storeUp>>
    /\ RiskFrame

----------------------------------------------------------------------------
(* The specification of the pipeline *)

Init ==
    /\ cache = EmptyMap
    /\ siteAttrs = EmptyMap
    /\ severity \in {EmptyMap, SeverityPayload(DEFAULT_ATTRIBUTE_SEVERITY)}
    /\ storeUp = TRUE
    /\ geminiKey \in BOOLEAN
    /\ units = <<>>
    /\ resp = NoResp
    /\ lastWriter = EmptyMap
    /\ keyUrlsA = <<>>
    /\ keyUrlsB = <<>>
    /\ keyOut = <<>>
    /\ sevWriters = [w \in 1..MaxWriters |-> IdleWriter]
    /\ siteCall = NoCall
    /\ siteReader = NoReader
    /\ snapshot = EmptyMap
    /\ riskCall = NoRiskCall
    /\ dcIn = DataCollection1
    /\ attrsOut = NoAttrs

Next ==
    \/ ProcessDomains
    \/ Deliver
    \/ \E u \in DOMAIN units : FetchOk(u)
    \/ \E u \in DOMAIN units : FetchFail(u)
    \/ \E u \in DOMAIN units : ExtractNoKey(u)
    \/ \E u \in DOMAIN units, id \in AnalysisIds : LlmParsed(u, id)
    \/ \E u \in DOMAIN units : LlmEmpty(u)
    \/ \E u \in DOMAIN units : LlmRaises(u)
    \/ \E u \in DOMAIN units : WriteCache(u)
    \/ \E u \in DOMAIN units : SiteRead(u)
    \/ \E u \in DOMAIN units : SiteDelete(u)
    \/ \E u \in DOMAIN units : SiteZadd(u)
    \/ StoreFails
    \/ StoreRecovers

Spec == Init /\ [][Next]_vars

\* The request a client polls with.
PollUrls == <<UA>>

\* The pipeline with one client that polls with PollUrls.
NextLive ==
    \/ tos_processor_root(PollUrls)
    \/ Deliver
    \/ \E u \in DOMAIN units : FetchOk(u)
    \/ \E u \in DOMAIN units : FetchFail(u)
    \/ \E u \in DOMAIN units : ExtractNoKey(u)
    \/ \E u \in DOMAIN units, id \in AnalysisIds : LlmParsed(u, id)
    \/ \E u \in DOMAIN units : LlmEmpty(u)
    \/ \E u \in DOMAIN units : LlmRaises(u)
    \/ \E u \in DOMAIN units : WriteCache(u)
    \/ \E u \in DOMAIN units : SiteRead(u)
    \/ \E u \in DOMAIN units : SiteDelete(u)
    \/ \E u \in DOMAIN units : SiteZadd(u)
    \/ StoreFails
    \/ StoreRecovers

\* The scheduling. The event loop runs every coroutine that is ready, so a
\* unit that can write does write; the synchronous tail of a unit runs on; a
\* response leaves its handler. The client re-issues its request for as long
\* as it can.
Fairness ==
    /\ WF_vars(Deliver)
    /\ \A u \in 1..MaxUnits :
          /\ SF_vars(u \in DOMAIN units /\ WriteCache(u))
          /\ SF_vars(u \in DOMAIN units /\ SiteRead(u))
          /\ SF_vars(u \in DOMAIN units /\ SiteDelete(u))
          /\ SF_vars(u \in DOMAIN units /\ SiteZadd(u))
    /\ SF_vars(tos_processor_root(PollUrls))

SpecLive == Init /\ [][NextLive]_vars /\ Fairness

----------------------------------------------------------------------------
(* The specification of the cache key derivation on pairs of URL lists *)

KeyUrls == {UA, UA2, UB, UBlank, UCom, UHostA, UHostB, UPipe, UNoDomain}

RECURSIVE UrlLists(_)
UrlLists(n) ==
    IF n = 0 THEN {<<>>}
    ELSE LET shorter == UrlLists(n - 1)
         IN  shorter \cup {Append(l, u) : l \in {s \in shorter : Len(s) = n - 1}, u \in KeyUrls}

InitKey ==
    /\ cache = EmptyMap
    /\ siteAttrs = EmptyMap
    /\ severity = EmptyMap
    /\ storeUp = TRUE
    /\ geminiKey = TRUE
    /\ units = <<>>
    /\ resp = NoResp
    /\ lastWriter = EmptyMap
    /\ keyUrlsA \in UrlLists(MaxUrls) \ {<<>>}
    /\ keyUrlsB \in UrlLists(MaxUrls) \ {<<>>}
    /\ keyOut = <<>>
    /\ sevWriters = [w \in 1..MaxWriters |-> IdleWriter]
    /\ siteCall = NoCall
    /\ siteReader = NoReader
    /\ snapshot = EmptyMap
    /\ riskCall = NoRiskCall
    /\ dcIn = DataCollection1
    /\ attrsOut = NoAttrs

\* cache_key = _cache_key_for_urls(urls), for each of the two lists.
ComputeKeys ==
    /\ keyOut = <<>>
    /\ keyOut' = <<_cache_key_for_urls(keyUrlsA), _cache_key_for_urls(keyUrlsB)>>
    /\ UNCHANGED <<cache, siteAttrs, severity, storeUp, geminiKey, units, resp,
                   lastWriter, keyUrlsA, keyUrlsB, sevVars>>

NextKey == ComputeKeys

SpecKey == InitKey /\ [][NextKey]_vars

----------------------------------------------------------------------------
(* The specification of the severity map store and the site attribute store *)

InitSev ==
    /\ cache = EmptyMap
    /\ siteAttrs = EmptyMap
    /\ severity \in {EmptyMap, LegacyStored}
    /\ storeUp = TRUE
    /\ geminiKey = TRUE
    /\ units = <<>>
    /\ resp = NoResp
    /\ lastWriter = EmptyMap
    /\ keyUrlsA = <<>>
    /\ keyUrlsB = <<>>
    /\ keyOut = <<>>
    /\ sevWriters = [w \in 1..MaxWriters |-> IdleWriter]
    /\ siteCall = NoCall
    /\ siteReader = NoReader
    /\ snapshot = EmptyMap
    /\ riskCall = NoRiskCall
    /\ dcIn = DataCollection1
    /\ attrsOut = NoAttrs

NextSev ==
    \/ \E w \in 1..MaxWriters : seed_attribute_severity(w)
    \/ \E w \in 1..MaxWriters, mapping \in SetMaps : set_attribute_severity_map(w, mapping)
    \/ \E w \in 1..MaxWriters : set_attribute_severity_map_hset(w)
    \/ \E w \in 1..MaxWriters : seed_attribute_severity_return(w)
    \/ get_attribute_severity
    \/ Deliver
    \/ StoreFails
    \/ StoreRecovers

SpecSev == InitSev /\ [][NextSev]_vars

\* The site attribute store with one seeding handler beside it: the severity
\* map is empty or holds CustomMap at first.
InitSite ==
    /\ cache = EmptyMap
    /\ siteAttrs = EmptyMap
    /\ severity \in {EmptyMap, SeverityPayload(CustomMap)}
    /\ storeUp = TRUE
    /\ geminiKey = TRUE
    /\ units = <<>>
    /\ resp = NoResp
    /\ lastWriter = EmptyMap
    /\ keyUrlsA = <<>>
    /\ keyUrlsB = <<>>
    /\ keyOut = <<>>
    /\ sevWriters = [w \in 1..MaxWriters |-> IdleWriter]
    /\ siteCall = NoCall
    /\ siteReader = NoReader
    /\ snapshot = EmptyMap
    /\ riskCall = NoRiskCall
    /\ dcIn = DataCollection1
    /\ attrsOut = NoAttrs

NextSite ==
    \/ seed_attribute_severity(1)
    \/ set_attribute_severity_map_hset(1)
    \/ seed_attribute_severity_return(1)
    \/ \E domain \in SiteDomains, names \in SiteNames : set_site_attributes_read(domain, names)
    \/ set_site_attributes_delete
    \/ set_site_attributes_zadd
    \/ \E domain \in SiteDomains : get_site_attributes_zrevrange(domain)
    \/ get_site_attributes_return
    \/ Deliver
    \/ StoreFails
    \/ StoreRecovers

SpecSite == InitSite /\ [][NextSite]_vars

----------------------------------------------------------------------------
(* The specification of GetTopRisks over stored states *)

\* A value under a cache key that is not a PolicyAnalysis, as POST /kv can
\* store it.
InvalidEntry == [status |-> "processing"]

\* The attribute set a unit stores for a domain from the extraction's content id.
StoredSet(id) ==
    Scored(DEFAULT_ATTRIBUTE_SEVERITY,
           collect_attributes_from_data_collection(PolicyAnalysis(id, {UA}).data_collection))

InitRisk ==
    /\ cache \in {EmptyMap}
                \cup {[k \in {_cache_key_for_domain("a.com")} |-> v] :
                         v \in {PolicyAnalysis(id, {UA}) : id \in 1..3} \cup {InvalidEntry}}
    /\ siteAttrs \in {EmptyMap} \cup {[d \in {"a.com"} |-> StoredSet(id)] : id \in 1..3}
    /\ severity \in {EmptyMap, SeverityPayload(DEFAULT_ATTRIBUTE_SEVERITY),
                     SeverityPayload(CustomMap)}
    /\ storeUp = TRUE
    /\ geminiKey = TRUE
    /\ units = <<>>
    /\ resp = NoResp
    /\ lastWriter = EmptyMap
    /\ keyUrlsA = <<>>
    /\ keyUrlsB = <<>>
    /\ keyOut = <<>>
    /\ sevWriters = [w \in 1..MaxWriters |-> IdleWriter]
    /\ siteCall = NoCall
    /\ siteReader = NoReader
    /\ snapshot = EmptyMap
    /\ riskCall = NoRiskCall
    /\ dcIn = DataCollection1
    /\ attrsOut = NoAttrs

NextRisk ==
    \/ \E u \in RiskInputs : compute_top_risks_zrevrange(u)
    \/ compute_top_risks_select
    \/ compute_top_risks_return
    \/ Deliver
    \/ StoreFails
    \/ StoreRecovers

SpecRisk == InitRisk /\ [][NextRisk]_vars

----------------------------------------------------------------------------
(* The specification of the attribute list derived from a data_collection *)

InitAttrs ==
    /\ cache = EmptyMap
    /\ siteAttrs = EmptyMap
    /\ severity = EmptyMap
    /\ storeUp = TRUE
    /\ geminiKey = TRUE
    /\ units = <<>>
    /\ resp = NoResp
    /\ lastWriter = EmptyMap
    /\ keyUrlsA = <<>>
    /\ keyUrlsB = <<>>
    /\ keyOut = <<>>
    /\ sevWriters = [w \in 1..MaxWriters |-> IdleWriter]
    /\ siteCall = NoCall
    /\ siteReader = NoReader
    /\ snapshot = EmptyMap
    /\ riskCall = NoRiskCall
    /\ dcIn \in DataCollections
    /\ attrsOut = NoAttrs

NextAttrs == CollectAttributes

SpecAttrs == InitAttrs /\ [][NextAttrs]_vars

----------------------------------------------------------------------------
(* Claims about the cache key (SpecKey) *)

KeysComputed == keyOut # <<>>

\* A root domain that contains the separator of the joined key.
ContainsSeparator(d) == d = "a|b"

\* A set of root domains whose key cannot be the key of another set: no
\* member contains the separator, and it is not the sentinel text alone.
PlainDomains(S) == S # {"no_domain"} /\ \A d \in S : ~ContainsSeparator(d)

\* C8 (as stated): the cache key depends only on the set of root domains of
\* the non-blank URLs: equal sets give equal keys and different sets give
\* different keys.
C8_KeyIffSameDomainSet ==
    KeysComputed =>
        ((RequestDomains(keyUrlsA) = RequestDomains(keyUrlsB)) <=> (keyOut[1] = keyOut[2]))

\* C8 (amended): equal sets of root domains give equal keys whatever the
\* schemes, paths, subdomains, order or duplicates; different sets give
\* different keys when no root domain contains the separator "|" and
\* neither set is {"no_domain"}, whose key is the sentinel key of the empty set.
C8_KeyBySetAmended ==
    KeysComputed =>
        /\ (RequestDomains(keyUrlsA) = RequestDomains(keyUrlsB)) => (keyOut[1] = keyOut[2])
        /\ ( /\ RequestDomains(keyUrlsA) # RequestDomains(keyUrlsB)
             /\ PlainDomains(RequestDomains(keyUrlsA))
             /\ PlainDomains(RequestDomains(keyUrlsB)) )
           => (keyOut[1] # keyOut[2])

\* Two lists that differ in scheme, path, subdomain and order share their key.
C8_Witness ==
    /\ KeysComputed
    /\ keyUrlsA = <<UA, UB>>
    /\ keyUrlsB = <<UB, UA2>>
    /\ keyOut[1] = keyOut[2]
    /\ keyOut[1] = "tos:process:a.com|b.com"

\* The key the claim C9 describes: URLs that are blank or yield the empty
\* domain contribute nothing; with no domain left the key is the sentinel.
ClaimedKey(urls) ==
    LET named == RequestDomains(urls) \ {""}
    IN  TOS_CACHE_PREFIX \o (IF named = {} THEN "no_domain" ELSE Join("|", SortedDomains(named)))

\* C9: when no submitted URL yields a root domain the cache key is the
\* sentinel key, and a URL that yields no domain never contributes an
\* element to the joined key.
C9_NoDomainGivesSentinel ==
    KeysComputed => keyOut[1] = ClaimedKey(keyUrlsA)

----------------------------------------------------------------------------
(* Claims about ProcessDomains and its background units (Spec) *)

\* A handler step of ProcessDomains: its response appears.
Answers == resp = NoResp /\ resp'.op = "ProcessDomains"

Answered == resp.op = "ProcessDomains"

RequestKey(urls) == _cache_key_for_urls(urls)

Completed(u) == units[u].pc = "done"

FailedInPipeline(u) == units[u].failure \in {"fetch", "extract"}

\* A unit as create_task leaves it: nothing fetched, nothing extracted.
IsFreshUnit(r, urls) ==
    /\ r.urls = urls
    /\ r.pc = "fetch"
    /\ r.fetched = 0
    /\ r.attempt = 0
    /\ r.answer = "none"
    /\ r.extraction = NoValue
    /\ r.failure = "none"
    /\ ~r.wroteCache
    /\ r.wroteSites = {}

\* The step started exactly one unit, for urls, and touched no other unit.
StartedOwnUnit(urls) ==
    /\ Len(units') = Len(units) + 1
    /\ resp'.unit = Len(units')
    /\ IsFreshUnit(units'[Len(units')], urls)
    /\ \A u \in DOMAIN units : units'[u] = units[u]

C2_HitIsReadOnly ==
    [][ ( /\ Answers
          /\ resp'.urls # <<>>
          /\ storeUp
          /\ RequestKey(resp'.urls) \in DOMAIN cache )
        => ( /\ resp'.kind = "analysis"
             /\ resp'.value = cache[RequestKey(resp'.urls)]
             /\ resp'.unit = 0
             /\ units' = units
             /\ cache' = cache
             /\ siteAttrs' = siteAttrs ) ]_vars

\* A hit answered while the model could still have started a unit.
C2_Witness ==
    /\ Answered
    /\ resp.lookup = "hit"
    /\ resp.kind = "analysis"
    /\ Len(units) < MaxUnits

\* C3: an empty URL list is rejected with a client error: no cache key is
\* computed, no store is read or written, no unit is started.
C3_EmptyListRejected ==
    [][ (Answers /\ resp'.urls = <<>>)
        => ( /\ resp'.kind = "client_error"
             /\ resp'.key = ""
             /\ resp'.lookup = "none"
             /\ resp'.unit = 0
             /\ units' = units
             /\ cache' = cache
             /\ siteAttrs' = siteAttrs
             /\ severity' = severity
             /\ lastWriter' = lastWriter ) ]_vars

\* The rejection, given while the store was unreachable.
C3_Witness ==
    /\ Answered
    /\ resp.urls = <<>>
    /\ resp.kind = "client_error"
    /\ ~storeUp

\* C4: a unit whose fetch failed has ended, left the remaining URLs
\* unfetched, never invoked the extraction and wrote nothing; a unit whose
\* extraction failed has ended and wrote nothing.
C4_FailedUnitWritesNothing ==
    \A u \in DOMAIN units :
        /\ units[u].failure = "fetch" =>
              /\ units[u].pc = "fetch_failed"
              /\ units[u].fetched < Len(units[u].urls)
              /\ units[u].attempt = 0
              /\ units[u].extraction = NoValue
        /\ units[u].failure = "extract" =>
              /\ units[u].pc = "extract_failed"
              /\ units[u].extraction = NoValue
        /\ FailedInPipeline(u) =>
              /\ ~units[u].wroteCache
              /\ units[u].wroteSites = {}
              /\ \A k \in DOMAIN lastWriter : lastWriter[k] # u

\* One unit failed on its second fetch, another in its extraction.
C4_Witness ==
    \E u, v \in DOMAIN units :
        /\ units[u].failure = "fetch"
        /\ units[u].fetched = 1
        /\ units[v].failure = "extract"
        /\ units[v].attempt = MAX_RETRIES

C7_StoreDownIsUnavailable ==
    (Answered /\ resp.lookup = "error") =>
        (resp.kind = "unavailable" /\ resp.unit = 0)

\* Every unit that has got as far as the cache write fetched all its URLs
\* and holds its own extraction of them.
DidFullWork(r) ==
    r.wroteCache =>
        /\ r.fetched = Len(r.urls)
        /\ \E id \in AnalysisIds : r.extraction = PolicyAnalysis(id, Range(r.urls))

\* C10: every call that misses the cache starts its own unit, also while
\* other units of the same key are in flight, and every unit does the whole
\* fetch and extraction itself.
C10_EveryMissStartsAUnit ==
    [][ /\ ( /\ Answers
             /\ resp'.urls # <<>>
             /\ ~(storeUp /\ RequestKey(resp'.urls) \in DOMAIN cache) )
           => (resp'.kind = "processing" /\ StartedOwnUnit(resp'.urls))
        /\ \A u \in DOMAIN units' : DidFullWork(units'[u]) ]_vars

InFlight(u) == units[u].pc \in {"fetch", "extract", "write", "site_read", "site_delete", "site_zadd"}

\* Two misses of one key gave two units, both past their fetch, both in flight.
C10_Witness ==
    /\ Len(units) = 2
    /\ RequestKey(units[1].urls) = RequestKey(units[2].urls)
    /\ InFlight(1) /\ InFlight(2)
    /\ units[1].fetched = Len(units[1].urls)
    /\ units[2].fetched = Len(units[2].urls)

\* C11: when several units of one cache key have written, the entry of the
\* key is exactly the extraction result of the unit whose cache write
\* happened last, whatever the order in which the units were started.
C11_LastWriteWins ==
    /\ DOMAIN cache = DOMAIN lastWriter
    /\ \A k \in DOMAIN cache :
          /\ lastWriter[k] \in DOMAIN units
          /\ RequestKey(units[lastWriter[k]].urls) = k
          /\ cache[k] = units[lastWriter[k]].extraction

\* Both units of a key completed with different results; the unit started
\* first wrote last and its result is the entry.
C11_Witness ==
    /\ Len(units) = 2
    /\ Completed(1) /\ Completed(2)
    /\ RequestKey(units[1].urls) = RequestKey(units[2].urls)
    /\ units[1].extraction # units[2].extraction
    /\ lastWriter[RequestKey(units[1].urls)] = 1
    /\ cache[RequestKey(units[1].urls)] = units[1].extraction

\* The unit is inside one extraction call with an API key configured.
Extracting(u) == units[u].pc = "extract" /\ geminiKey

\* C12: one extraction call invokes the model at most MAX_RETRIES = 3 times:
\* an invocation is made only after fewer than 3 empty answers; an empty
\* answer is retried until the third, which fails the call; the first
\* parsed answer is returned and the model is not invoked again; an
\* invocation that raises ends the call as a failure at once.
C12_AtMostThreeAttempts ==
    [][ \A u \in DOMAIN units :
          /\ units[u].attempt <= MAX_RETRIES
          /\ (Extracting(u) /\ units'[u] # units[u]) =>
                /\ units[u].attempt < MAX_RETRIES
                /\ units'[u].answer = "parsed" =>
                      /\ units'[u].pc = "write"
                      /\ units'[u].extraction # NoValue
                /\ units'[u].answer = "empty" =>
                      /\ units'[u].attempt = units[u].attempt + 1
                      /\ units'[u].extraction = NoValue
                      /\ units'[u].pc = IF units'[u].attempt = MAX_RETRIES
                                        THEN "extract_failed" ELSE "extract"
                /\ units'[u].answer = "raised" =>
                      /\ units'[u].pc = "extract_failed"
                      /\ units'[u].extraction = NoValue
                /\ units'[u].answer \in {"parsed", "empty", "raised"}
          /\ units[u].pc # "extract" => units'[u].answer = units[u].answer ]_vars

\* A call that got its result on the third invocation, after two empty
\* answers, beside a call that failed after three.
C12_Witness ==
    \E u, v \in DOMAIN units :
        /\ units[u].pc = "extract" /\ units[u].attempt = MAX_RETRIES - 1
        /\ units[u].answer = "empty"
        /\ units[v].pc = "extract_failed" /\ units[v].attempt = MAX_RETRIES
        /\ units[v].answer = "empty"

----------------------------------------------------------------------------
(* Claims about the severity map store (SpecSev) *)

\* A response of the named operation is pending.
AnsweredOk(op) == resp.op = op /\ resp.kind = "ok"

\* The call of slot w has run to its end, no other call has written the hash
\* since it began.
RanAlone(w) == sevWriters[w].pc = "done" /\ sevWriters[w].alone

\* C13: a SeedSeverityDefaults that ran without concurrent writers returns
\* the default table and leaves the stored map equal to it, whatever the map
\* held before (no key of the previous map survives); when the map already
\* was the seeded table (a second call) the store is as it was before.
C13_SeedOverwritesWithDefaults ==
    (AnsweredOk("SeedSeverityDefaults") /\ RanAlone(resp.unit)) =>
        /\ resp.value = DEFAULT_ATTRIBUTE_SEVERITY
        /\ get_attribute_severity_map(severity) = DEFAULT_ATTRIBUTE_SEVERITY
        /\ DOMAIN severity = DOMAIN DEFAULT_ATTRIBUTE_SEVERITY
        /\ \A k \in DOMAIN severity : severity[k] = DEFAULT_ATTRIBUTE_SEVERITY[k]
        /\ (get_attribute_severity_map(sevWriters[resp.unit].before) = DEFAULT_ATTRIBUTE_SEVERITY)
              => severity = sevWriters[resp.unit].before

\* A second seeding alone, answering the table it found; the first one, in
\* the other slot, had replaced a map with a key the table does not have.
C13_Witness ==
    /\ AnsweredOk("SeedSeverityDefaults")
    /\ RanAlone(resp.unit)
    /\ sevWriters[resp.unit].before = severity
    /\ resp.value = DEFAULT_ATTRIBUTE_SEVERITY
    /\ \E v \in DOMAIN sevWriters :
          /\ v # resp.unit
          /\ sevWriters[v].op = "Seed"
          /\ sevWriters[v].pc = "done"
          /\ "custom_attr" \in DOMAIN sevWriters[v].before

\* A stored value that is a bare color string.
IsBareColor(v) == "text" \in DOMAIN v /\ v.text \in {"red", "yellow", "green"}

\* C14: for every attribute stored as a bare color string GetSeverityMap
\* returns a structured entry with the default table's sensitivity_level of
\* the attribute; for an attribute not in the default table it returns
\* {green, 1}.
C14_LegacyUpgradedFromDefaults ==
    AnsweredOk("GetSeverityMap") =>
        \A k \in DOMAIN severity :
            IsBareColor(severity[k]) =>
                /\ k \in DOMAIN resp.value
                /\ IF k \in DOMAIN DEFAULT_ATTRIBUTE_SEVERITY
                   THEN /\ resp.value[k].color = severity[k].text
                        /\ resp.value[k].sensitivity_level =
                              DEFAULT_ATTRIBUTE_SEVERITY[k].sensitivity_level
                   ELSE resp.value[k] = SeverityEntry("green", 1)

\* What Get is to return after Set(mapping) according to C15.
AfterSet(mapping) ==
    [k \in DOMAIN mapping |->
        IF "color" \in DOMAIN mapping[k] /\ "sensitivity_level" \in DOMAIN mapping[k]
        THEN mapping[k]
        ELSE [color |-> "green", sensitivity_level |-> 1]]

----------------------------------------------------------------------------
(* Claims about the site attribute store (SpecSite) *)

\* The step in which get_site_attributes returns a list it has read.
ReturnsList ==
    /\ siteReader.pc = "map"
    /\ resp'.op = "GetCachedAttributes"
    /\ resp'.kind = "ok"

\* The level attr has by the severity map m of a call of set_site_attributes
\* (-1: neither m nor the default table has an entry for attr).
LevelBy(m, attr) ==
    IF attr \in DOMAIN m THEN m[attr].sensitivity_level
    ELSE IF attr \in DOMAIN DEFAULT_ATTRIBUTE_SEVERITY
         THEN DEFAULT_ATTRIBUTE_SEVERITY[attr].sensitivity_level
         ELSE -1

\* C16 (as stated): the sensitivity_level returned for an attribute of a
\* domain is the level the attribute had in the severity map at the moment
\* SetSiteAttributes last wrote the set of the domain.
C16_LevelOfMapAtWrite ==
    [][ ReturnsList =>
          \A i \in DOMAIN resp'.value :
             LET attr == resp'.value[i].attribute
             IN  LevelBy(siteReader.snap.written, attr) # -1 =>
                    resp'.value[i].sensitivity_level = LevelBy(siteReader.snap.written, attr) ]_vars

\* C16 (amended): the sensitivity_level returned for an attribute of a
\* domain is the level the attribute had in the severity map as the call of
\* SetSiteAttributes that last wrote the set read it, before its delete and
\* its write (the default table's level when that map was empty or had no
\* entry for the attribute); a Seed or Set of the severity map, during that
\* call or later, does not change it until the set is rewritten.
C16_LevelOfMapReadByWriter ==
    [][ ReturnsList =>
          \A i \in DOMAIN resp'.value :
             LET attr == resp'.value[i].attribute
             IN  LevelBy(siteReader.snap.read, attr) # -1 =>
                    resp'.value[i].sensitivity_level = LevelBy(siteReader.snap.read, attr) ]_vars

\* email was written with level 7 under CustomMap; the map has been seeded
\* since, where email has level 4, and the list still says 7.
C16_Witness ==
    /\ AnsweredOk("GetCachedAttributes")
    /\ \E i \in DOMAIN resp.value :
          /\ resp.value[i].attribute = "email"
          /\ resp.value[i].sensitivity_level = 7
    /\ severity = SeverityPayload(DEFAULT_ATTRIBUTE_SEVERITY)
    /\ get_attribute_severity_map(severity)["email"].sensitivity_level = 4

\* C17: a name absent from both the live severity map and the default table
\* is skipped: no set has it as a member, and every member's score is the
\* level of a severity entry.
C17_UnknownAttributeSkipped ==
    \A d \in DOMAIN siteAttrs :
        \A attr \in DOMAIN siteAttrs[d] :
            /\ d \in DOMAIN snapshot
            /\ LevelBy(snapshot[d].read, attr) # -1
            /\ siteAttrs[d][attr] = LevelBy(snapshot[d].read, attr)

\* A step of the call of set_site_attributes that touches the store.
SiteCallStep == siteCall.pc \in {"delete", "zadd"} /\ siteCall' # siteCall

\* C18: SetSiteAttributes(domain, names) replaces the whole set of the
\* domain: when it has returned the set has no member outside names (none
\* of the previous set's other members); with an empty names list the set
\* is deleted and the call returns without an error; the sets of all other
\* domains, the severity map and the Analysis Cache are unchanged.
C18_ReplacesWholeSet ==
    [][ SiteCallStep =>
          /\ \A d \in (DOMAIN siteAttrs \cup DOMAIN siteAttrs') \ {siteCall.domain} :
                /\ d \in DOMAIN siteAttrs /\ d \in DOMAIN siteAttrs'
                /\ siteAttrs'[d] = siteAttrs[d]
          /\ severity' = severity
          /\ cache' = cache
          /\ siteCall'.pc = "done" =>
                /\ siteCall.domain \in DOMAIN siteAttrs' =>
                       DOMAIN siteAttrs'[siteCall.domain] \subseteq Range(siteCall.names)
                /\ \A attr \in siteCall.prev \ Range(siteCall.names) :
                       \/ siteCall.domain \notin DOMAIN siteAttrs'
                       \/ attr \notin DOMAIN siteAttrs'[siteCall.domain]
          /\ (siteCall.names = <<>> /\ storeUp) =>
                /\ siteCall'.pc = "done"
                /\ siteCall.domain \notin DOMAIN siteAttrs' ]_vars

\* A call has returned that replaced a set holding financial_account and
\* browser_info by one without them, beside the set of another domain.
C18_Witness ==
    /\ siteCall.pc = "done"
    /\ siteCall.names # <<>>
    /\ {"financial_account", "browser_info"} \subseteq siteCall.prev
    /\ Members(siteCall.domain) = {"email", "unknown_attr"}
    /\ \E d \in DOMAIN siteAttrs : d # siteCall.domain

\* C19: the list GetCachedAttributes returns is non-increasing in
\* sensitivity_level across consecutive elements, and it is the empty list,
\* not an error, for a domain for which nothing is stored.
C19_ListIsNonIncreasing ==
    [][ (resp = NoResp /\ resp'.op = "GetCachedAttributes") =>
          /\ resp'.kind = "ok" =>
                \A i \in DOMAIN resp'.value : \A j \in DOMAIN resp'.value :
                   i < j => resp'.value[i].sensitivity_level >= resp'.value[j].sensitivity_level
          /\ (siteReader.pc # "map" /\ storeUp /\ resp'.key \notin DOMAIN siteAttrs) =>
                (resp'.kind = "ok" /\ resp'.value = <<>>) ]_vars

\* A list of two attributes of different levels, while nothing is stored
\* for the other domain.
C19_Witness ==
    /\ AnsweredOk("GetCachedAttributes")
    /\ Len(resp.value) = 2
    /\ resp.value[1].sensitivity_level > resp.value[2].sensitivity_level
    /\ \E d \in SiteDomains : d \notin DOMAIN siteAttrs

\* The list the claim C20 describes for the names: one entry per distinct
\* name with the default table's color and level.
IsDefaultListOf(list, names) ==
    /\ Len(list) = Cardinality(names)
    /\ {list[i].attribute : i \in DOMAIN list} = names
    /\ \A i \in DOMAIN list :
          /\ list[i].color = DEFAULT_ATTRIBUTE_SEVERITY[list[i].attribute].color
          /\ list[i].sensitivity_level =
                DEFAULT_ATTRIBUTE_SEVERITY[list[i].attribute].sensitivity_level
    /\ \A i \in DOMAIN list : \A j \in DOMAIN list :
          i < j => list[i].sensitivity_level >= list[j].sensitivity_level

\* C20: when SetSiteAttributes(D, names), names from the default table,
\* scored with the seeded map and the map is the seeded one when the list is
\* read, GetCachedAttributes(D) returns one entry per distinct name, each
\* with the default table's color and sensitivity_level, by descending level.
C20_SeededListHasDefaults ==
    [][ ( /\ ReturnsList
          /\ siteReader.snap.read = DEFAULT_ATTRIBUTE_SEVERITY
          /\ siteReader.snap.names \subseteq DOMAIN DEFAULT_ATTRIBUTE_SEVERITY
          /\ ScoringMap(severity) = DEFAULT_ATTRIBUTE_SEVERITY )
        => IsDefaultListOf(resp'.value, siteReader.snap.names) ]_vars

\* The end-to-end scenario: after a Seed, the list of the three names.
C20_Witness ==
    /\ AnsweredOk("GetCachedAttributes")
    /\ sevWriters[1].op = "Seed" /\ sevWriters[1].pc = "done"
    /\ severity = SeverityPayload(DEFAULT_ATTRIBUTE_SEVERITY)
    /\ resp.key = "example.com"
    /\ resp.value = << [attribute |-> "financial_account", color |-> "red", sensitivity_level |-> 10],
                       [attribute |-> "email", color |-> "yellow", sensitivity_level |-> 4],
                       [attribute |-> "browser_info", color |-> "green", sensitivity_level |-> 2] >>

----------------------------------------------------------------------------
(* Claims about GetTopRisks (SpecRisk) *)

RiskAnswered == resp.op = "GetTopRisks" /\ resp.kind = "ok"

\* The attributes stored for the domain the last call asked about that the
\* severity map of the state shows red.
RedOfDomain ==
    {a \in Members(riskCall.domain) : ColorOf(ScoringMap(severity), a) = "red"}

RedCategories == {_attribute_section_type(a) : a \in RedOfDomain}

\* C21: the top_high_risk_attributes GetTopRisks returns are red attributes of
\* the domain, no two of one data-collection category, and as many as
\* min(3, number of distinct categories among the domain's red attributes).
C21_TopRedOnePerCategory ==
    RiskAnswered =>
        LET top == resp.value.top_high_risk_attributes
            sel == riskCall.top_3
        IN  /\ Len(top) = Len(sel)
            /\ \A i \in DOMAIN top :
                  /\ top[i].color = "red"
                  /\ sel[i].attribute \in RedOfDomain
                  /\ top[i].title = _format_attribute_name(sel[i].attribute)
            /\ \A i, j \in DOMAIN sel :
                  i # j => _attribute_section_type(sel[i].attribute)
                           # _attribute_section_type(sel[j].attribute)
            /\ Len(top) = IF Cardinality(RedCategories) < 3
                          THEN Cardinality(RedCategories) ELSE 3

\* Three are returned of red attributes in more than three categories, and a
\* red attribute of a higher level than the last one returned was left out.
C21_Witness ==
    /\ RiskAnswered
    /\ Len(resp.value.top_high_risk_attributes) = 3
    /\ Cardinality(RedCategories) > 3
    /\ \E a \in RedOfDomain :
          /\ \A i \in DOMAIN riskCall.top_3 : riskCall.top_3[i].attribute # a
          /\ siteAttrs[riskCall.domain][a] > riskCall.top_3[3].sensitivity_level

\* C22: the mitigations GetTopRisks returns are min(2, number of selected
\* attributes) many, and the i-th carries the title of the i-th selected one.
C22_MitigationsForFirstTwo ==
    RiskAnswered =>
        LET top == resp.value.top_high_risk_attributes
            mitigations == resp.value.mitigations
        IN  /\ Len(mitigations) = IF Len(top) < 2 THEN Len(top) ELSE 2
            /\ \A i \in DOMAIN mitigations :
                  /\ mitigations[i].title = top[i].title
                  /\ mitigations[i].title = _format_attribute_name(riskCall.top_3[i].attribute)

\* Three attributes are selected, two mitigations returned, the second with a text.
C22_Witness ==
    /\ RiskAnswered
    /\ Len(resp.value.top_high_risk_attributes) = 3
    /\ Len(resp.value.mitigations) = 2
    /\ resp.value.mitigations[2].mitigation # ""

\* The key of the Analysis Cache entry of the domain the last call asked about.
RiskKey == TOS_CACHE_PREFIX \o riskCall.domain

\* The store answers, and holds a PolicyAnalysis under the key.
EntryFound(key) == storeUp /\ key \in DOMAIN cache /\ IsPolicyAnalysis(cache[key])

\* C23: has_cached_analysis is true exactly when an Analysis Cache entry was
\* found under the key of the normalized domain, whatever evidence the
\* selected attributes have and whether or not the domain has attributes.
C23_HasCachedIffEntryFound ==
    RiskAnswered =>
        /\ resp.value.domain = riskCall.domain
        /\ resp.key = RiskKey
        /\ resp.value.has_cached_analysis <=> EntryFound(RiskKey)

\* An entry was found while no selected attribute has evidence text.
C23_Witness ==
    /\ RiskAnswered
    /\ resp.value.has_cached_analysis
    /\ resp.value.top_high_risk_attributes # <<>>
    /\ \A i \in DOMAIN resp.value.top_high_risk_attributes :
          resp.value.top_high_risk_attributes[i].evidence = ""

\* A step of a call of compute_top_risks.
RiskCallStep == riskCall' # riskCall

\* C25: no step of GetTopRisks changes the severity map, a site attribute
\* set or an Analysis Cache entry, or starts a background unit.
C25_TopRisksWritesNothing ==
    [][RiskCallStep => UNCHANGED <<severity, siteAttrs, cache, units>>]_vars

\* A call has returned for a domain that has attributes and no cached analysis.
C25_Witness ==
    /\ RiskAnswered
    /\ resp.lookup = "miss"
    /\ Members(riskCall.domain) # {}
    /\ RiskKey \notin DOMAIN cache

\* What get_json gives for a key that does not exist.
CacheMiss == [outcome |-> "miss", value |-> NoValue]

\* C26: when the lookup of the Analysis Cache fails inside GetTopRisks after
\* the site attributes were read, the call answers as on a cache miss: the
\* same selection, has_cached_analysis false, and every text empty.
C26_LookupFailureIsAMiss ==
    (RiskAnswered /\ resp.lookup = "error") =>
        /\ resp.value = RiskSummary(riskCall.domain, riskCall.top_3, CacheMiss)
        /\ Len(resp.value.top_high_risk_attributes) = Len(riskCall.top_3)
        /\ ~resp.value.has_cached_analysis
        /\ \A i \in DOMAIN resp.value.top_high_risk_attributes :
              /\ resp.value.top_high_risk_attributes[i].evidence = ""
              /\ resp.value.top_high_risk_attributes[i].explanation = ""
        /\ \A i \in DOMAIN resp.value.mitigations : resp.value.mitigations[i].mitigation = ""
        /\ resp.value.data_retention_policy.explanation = ""

\* The store went down after the attributes were read, with an analysis
\* stored under the key and attributes selected.
C26_Witness ==
    /\ RiskAnswered
    /\ resp.lookup = "error"
    /\ ~storeUp
    /\ RiskKey \in DOMAIN cache
    /\ IsPolicyAnalysis(cache[RiskKey])
    /\ resp.value.top_high_risk_attributes # <<>>

\* The stored level of attribute a of the domain the last call asked about.
StoredLevel(a) == siteAttrs[riskCall.domain][a]

SelectedCategories ==
    {_attribute_section_type(riskCall.top_3[i].attribute) : i \in DOMAIN riskCall.top_3}

\* C32: GetTopRisks selects greedily by descending sensitivity: the list is
\* non-increasing in sensitivity_level, each selected attribute has the
\* highest level among the domain's red attributes of its category, and no
\* red attribute of an unselected category has a higher level than a
\* selected one.
C32_GreedyByDescendingLevel ==
    RiskAnswered =>
        LET top == resp.value.top_high_risk_attributes
            sel == riskCall.top_3
        IN  /\ \A i, j \in DOMAIN top :
                  i < j => top[i].sensitivity_level >= top[j].sensitivity_level
            /\ \A i \in DOMAIN sel :
                  /\ top[i].sensitivity_level = StoredLevel(sel[i].attribute)
                  /\ \A a \in RedOfDomain :
                        \/ /\ _attribute_section_type(a)
                                = _attribute_section_type(sel[i].attribute)
                           /\ StoredLevel(a) <= top[i].sensitivity_level
                        \/ /\ _attribute_section_type(a) \in SelectedCategories
                           /\ _attribute_section_type(a)
                                # _attribute_section_type(sel[i].attribute)
                        \/ /\ _attribute_section_type(a) \notin SelectedCategories
                           /\ StoredLevel(a) <= top[i].sensitivity_level

\* Three are selected; a red category is left out, and a selected category
\* has a second red attribute of a lower level.
C32_Witness ==
    /\ RiskAnswered
    /\ Len(riskCall.top_3) = 3
    /\ \E a \in RedOfDomain : _attribute_section_type(a) \notin SelectedCategories
    /\ \E a \in RedOfDomain, i \in DOMAIN riskCall.top_3 :
          /\ a # riskCall.top_3[i].attribute
          /\ _attribute_section_type(a) = _attribute_section_type(riskCall.top_3[i].attribute)
          /\ StoredLevel(a) < riskCall.top_3[i].sensitivity_level

----------------------------------------------------------------------------
(* Claims about the pipeline and the read paths together (Spec) *)

\* C24: in every state the pipeline reaches, a domain with no stored
\* attributes has the empty list as GetCachedAttributes and
\* has_cached_analysis false in GetTopRisks. The state is taken with the
\* store reachable and no unit inside its synchronous tail.
C24_NoAttributesNoAnalysis ==
    \A u \in RiskInputs :
        LET D == _normalize_domain(u)
            raw == IF D \in DOMAIN siteAttrs THEN ZRevRange(siteAttrs[D]) ELSE <<>>
            got == get_json(_cache_key_for_domain(D))
        IN  (storeUp /\ LoopFree /\ Members(D) = {}) =>
                /\ SiteResult(raw, ScoringMap(severity)) = <<>>
                /\ ~RiskSummary(D, <<>>, got).has_cached_analysis

\* A unit has written an entry under the key.
WrittenByAUnit(key) ==
    \E u \in DOMAIN units : units[u].wroteCache /\ UnitCacheKey(u) = key

----------------------------------------------------------------------------
(* Claims about polling (SpecLive) *)

\* Every fetch and the extraction of a unit started for the polled request
\* have succeeded: the unit holds its extraction and is about to cache it.
ExtractedForPoll ==
    \E u \in DOMAIN units :
        /\ RequestKey(units[u].urls) = RequestKey(PollUrls)
        /\ units[u].pc = "write"

PollAnswered == Answered /\ RequestKey(resp.urls) = RequestKey(PollUrls)

\* C30: if the store stays reachable and every fetch and the extraction of
\* at least one unit started for the polled request succeed, then a
\* ProcessDomains call for that domain set eventually returns a
\* PolicyAnalysis.
C30_PollingEventuallyReturns ==
    ([]storeUp /\ <>ExtractedForPoll)
        => <>(PollAnswered /\ resp.kind = "analysis" /\ IsPolicyAnalysis(resp.value))

\* A poll that was answered "processing" before is answered with the analysis.
C30_Witness ==
    /\ PollAnswered
    /\ resp.kind = "analysis"
    /\ \E u \in DOMAIN units :
          /\ RequestKey(units[u].urls) = RequestKey(PollUrls)
          /\ units[u].wroteCache

----------------------------------------------------------------------------
(* Claims about the derived attribute list (SpecAttrs) *)

\* C27: the attribute list derived from an extraction result has no
\* duplicate, holds the names of every category's types list, and holds
\* ip_address only if the status of the ip_address signal indicates presence.
C27_IpAddressOnlyIfSignalled ==
    attrsOut.derived =>
        LET attrs == attrsOut.attrs
            listed == UNION {Range(dcIn[k].types) : k \in TypedSectionKeys \cap DOMAIN dcIn}
        IN  /\ \A i, j \in DOMAIN attrs : i # j => attrs[i] # attrs[j]
            /\ Range(attrs) \ {"ip_address"} = listed \ {"ip_address"}
            /\ "ip_address" \in Range(attrs) => dcIn.ip_address.status \in {"true", "True"}

----------------------------------------------------------------------------
(* Claims about readers beside a replacement of a set (SpecSite) *)

\* get_site_attributes reads the set of domain d in this step (zrevrange).
ReaderReads(d) ==
    /\ siteReader.pc \in {"idle", "returned"}
    /\ resp = NoResp
    /\ storeUp
    /\ \/ siteReader'.pc = "map" /\ siteReader'.domain = d
       \/ resp'.op = "GetCachedAttributes" /\ resp'.key = d

\* The members the read of this step gave.
ObservedNext == {siteReader'.raw[i].member : i \in DOMAIN siteReader'.raw}

\* C28: a read of a domain's set while set_site_attributes is replacing a
\* set that had attributes gives the whole old set or the whole new set.
C28_ReplacementAtomicForReaders ==
    [][\A d \in SiteDomains :
          (/\ ReaderReads(d)
           /\ siteCall.domain = d
           /\ siteCall.pc \in {"delete", "zadd"}
           /\ siteCall.prev # {})
          => ObservedNext \in {siteCall.prev, Range(siteCall.names)}]_vars

----------------------------------------------------------------------------
(* Claims about the writes of one unit (Spec) *)

\* The members of the set stored for domain d after the step.
MembersNext(d) == IF d \in DOMAIN siteAttrs' THEN DOMAIN siteAttrs'[d] ELSE {}

\* C31: within one unit the write of the Analysis Cache precedes every
\* write of a site attribute set; the unit takes each root domain of its
\* request once, leaves the derived attribute list as the members of that
\* domain's set, and has written every root domain when it is done.
C31_CacheThenEveryDomainOnce ==
    [][\A u \in DOMAIN units :
          /\ InSyncTail(u) => units[u].wroteCache
          /\ (units[u].pc = "site_read" /\ units'[u].pc = "site_delete")
                => units'[u].cur \in RequestDomains(units[u].urls) \ units[u].wroteSites
          /\ (units[u].pc \in {"site_delete", "site_zadd"}
                /\ units'[u].pc \in {"site_read", "done"})
                => MembersNext(units[u].cur) = found_attrs(u)
          /\ (units[u].pc # "done" /\ units'[u].pc = "done")
                => /\ units'[u].wroteCache
                   /\ units'[u].wroteSites = RequestDomains(units[u].urls)]_vars

\* A unit for two root domains is done and both sets hold its attribute list.
C31_Witness ==
    \E u \in DOMAIN units :
        /\ Completed(u)
        /\ Cardinality(RequestDomains(units[u].urls)) = 2
        /\ units[u].wroteSites = RequestDomains(units[u].urls)
        /\ \A d \in RequestDomains(units[u].urls) : Members(d) = found_attrs(u)

----------------------------------------------------------------------------
(* Claims about the color of a stored attribute (SpecSite) *)

\* C33 (as stated): the color returned for an attribute of a domain is the
\* color the attribute had in the severity map when the set of the domain
\* was last written, whatever has become of the severity map since.
C33_ColorOfMapAtWrite ==
    [][ ReturnsList =>
          \A i \in DOMAIN resp'.value :
             resp'.value[i].color
                = ColorOf(siteReader.snap.written, resp'.value[i].attribute) ]_vars

\* C33 (amended): the color returned for an attribute of a domain is the
\* color the attribute has in the severity map at the time of the read (the
\* default table's color when the map is empty or has no entry for the
\* attribute, green when neither knows it); only the sensitivity_level is
\* that of the last write.
C33_ColorOfMapAtRead ==
    [][ ReturnsList =>
          \A i \in DOMAIN resp'.value :
             resp'.value[i].color
                = ColorOf(ScoringMap(severity), resp'.value[i].attribute) ]_vars

\* email was written under CustomMap, where it is red with level 7; after a
\* seed the list shows it yellow, still with level 7.
C33_Witness ==
    /\ AnsweredOk("GetCachedAttributes")
    /\ \E i \in DOMAIN resp.value :
          /\ resp.value[i].attribute = "email"
          /\ resp.value[i].color = "yellow"
          /\ resp.value[i].sensitivity_level = CustomMap["email"].sensitivity_level
    /\ CustomMap["email"].color = "red"

----------------------------------------------------------------------------
(* Claims about concurrent seeding (SpecSev) *)

\* The default table as a read of the seeded hash gives it.
SeededMap == get_attribute_severity_map(SeverityPayload(DEFAULT_ATTRIBUTE_SEVERITY))

\* Every call of a slot is a Seed call.
SeedsOnly == \A w \in DOMAIN sevWriters : sevWriters[w].op \in {"none", "Seed"}

\* A Seed call has completed and its response has left the handler.
SeedCompleted ==
    \E w \in DOMAIN sevWriters :
        sevWriters[w].op = "Seed" /\ sevWriters[w].pc = "done" /\ resp.unit # w

\* The Seed call that answers began on the fully seeded hash.
SeedBeganSeeded ==
    /\ resp.unit \in DOMAIN sevWriters
    /\ sevWriters[resp.unit].before = SeverityPayload(DEFAULT_ATTRIBUTE_SEVERITY)

\* C34: once a first Seed has completed, every Seed call and every
\* GetSeverityMap returns the full default table, also while other Seed
\* calls run: never an empty or partial map.
C34_NeverPartialAfterSeed ==
    /\ (SeedsOnly /\ SeedCompleted /\ AnsweredOk("GetSeverityMap"))
          => resp.value = SeededMap
    /\ (SeedsOnly /\ SeedBeganSeeded /\ AnsweredOk("SeedSeverityDefaults"))
          => resp.value = SeededMap

----------------------------------------------------------------------------
(* Claims about an entry once it is written (Spec) *)

\* C35: once an entry exists for a key no step removes it, every later
\* ProcessDomains call for the key is a hit that starts no unit, and the
\* entry changes only by the write of a unit that was there before.
C35_EntryIsAuthoritative ==
    [][ /\ DOMAIN cache \subseteq DOMAIN cache'
        /\ (Answers /\ resp'.urls # <<>> /\ RequestKey(resp'.urls) \in DOMAIN cache)
              => /\ resp'.kind = "analysis"
                 /\ resp'.value = cache[RequestKey(resp'.urls)]
                 /\ units' = units ]_vars

----------------------------------------------------------------------------
(* Claims about the entry and the sets of overlapping requests (Spec) *)

\* The root domains the requests name.
RootDomains == UNION {RequestDomains(urls) : urls \in RequestLists}

\* No unit is in flight and none was stopped by the store.
PipelineQuiet ==
    \A u \in DOMAIN units : ~InFlight(u) /\ units[u].failure # "store"

\* C36: with no unit in flight, the set of every domain that has an entry
\* under its single-domain key holds exactly the attribute list derived from
\* the data_collection of that entry, also after requests with overlapping
\* domain sets.
C36_SetMatchesOwnEntry ==
    PipelineQuiet =>
        \A D \in RootDomains :
            _cache_key_for_domain(D) \in DOMAIN cache =>
                Members(D) = collect_attributes_from_data_collection(
                                 cache[_cache_key_for_domain(D)].data_collection)

\* The unit ran to its end with all its writes.
CompletedSuccessfully(u) ==
    /\ Completed(u)
    /\ units[u].failure = "none"
    /\ units[u].wroteCache

\* C37: after a unit for a request with root-domain set S has completed
\* successfully, GetTopRisks(D) reports has_cached_analysis true for every D
\* in S, also when S has more than one domain. The state is taken with the
\* store reachable and no unit inside its synchronous tail.
C37_CompletedDomainsHaveAnalysis ==
    \A u \in DOMAIN units :
        (CompletedSuccessfully(u) /\ storeUp /\ LoopFree) =>
            \A d \in RiskInputs :
                LET D == _normalize_domain(d)
                    raw == IF D \in DOMAIN siteAttrs THEN ZRevRange(siteAttrs[D]) ELSE <<>>
                    top_3 == Top3(RedAttrs(SiteResult(raw, ScoringMap(severity))), {}, <<>>)
                    got == get_json(_cache_key_for_domain(D))
                IN  D \in RequestDomains(units[u].urls) =>
                        RiskSummary(D, top_3, got).has_cached_analysis

----------------------------------------------------------------------------
(* Claims about a unit stopped by the store (Spec) *)

\* The store failed on the unit after its cache write and before the set of
\* every root domain of its request was written.
StoppedBetweenWrites(u) ==
    /\ units[u].failure = "store"
    /\ units[u].wroteCache
    /\ units[u].wroteSites # RequestDomains(units[u].urls)

\* The entry the unit wrote is still the entry of its key.
EntryRemains(u) ==
    /\ UnitCacheKey(u) \in DOMAIN cache
    /\ lastWriter[UnitCacheKey(u)] = u

\* C38: a unit persists all of its writes or none: when the store fails
\* after the cache write and before every set is written, no entry of that
\* unit remains, and a later identical request is not answered from one.
C38_AllWritesOrNone ==
    /\ \A u \in DOMAIN units : StoppedBetweenWrites(u) => ~EntryRemains(u)
    /\ (Answered /\ resp.kind = "analysis")
          => \A u \in DOMAIN units :
                (StoppedBetweenWrites(u) /\ UnitCacheKey(u) = resp.key) => ~EntryRemains(u)

====
